---------------------------- MODULE Spec2Model ----------------------------
(***************************************************************************)
(* A model of python-fluent's runtime: the locale fallback of              *)
(* FluentLocalization (fluent/runtime/fallback.py) and the resolver tree   *)
(* (fluent/runtime/resolver.py).                                           *)
(*                                                                         *)
(* The resolver is modelled as a stack machine: `ctl` is what the          *)
(* interpreter does next (call a node, return a value, propagate an        *)
(* exception) and `stack` holds the Python frames that wait for it.  One   *)
(* action models one __call__ entry or one continuation of a frame.        *)
(*                                                                         *)
(* Strings are TLA+ strings; the two isolation marks U+2068 and U+2069 are *)
(* written "<" and ">" (one character each, as in the source).             *)
(***************************************************************************)
EXTENDS Integers, Sequences, FiniteSets, TLC

VARIABLES
    locales,          \* FluentLocalization.locales
    resource_loader,  \* FluentLocalization.resource_loader (name of a loader)
    use_isolating,    \* FluentLocalization.use_isolating
    bundle_cache,     \* FluentLocalization._bundle_cache
    bundle_it,        \* FluentLocalization._bundle_it: position of the generator
    pc,               \* where format_value stands
    msg_id,           \* format_value's msg_id
    args,             \* format_value's args
    bundle_pointer,   \* _bundles' bundle_pointer
    part_count,       \* ResolverEnvironment.part_count
    active_patterns,  \* ResolverEnvironment.active_patterns
    errors,           \* ResolverEnvironment.errors
    current,          \* ResolverEnvironment.current
    ctl,              \* the interpreter's control: call / ret / raise
    stack,            \* the frames waiting for ctl, innermost last
    result,           \* what format_value returned or raised
    calls,            \* number of format_value calls made
    longest_placeable, \* longest text a Placeable resolved in this resolution
    previous,         \* what the call before gave, when this call repeats it
    cache_before,     \* the cache length and iterator position as this call began
    cursors,          \* other _bundles() generators: pointer, finished, yielded,
                      \* the statement each is at, what next() handed it
    fluent_loader,    \* a FluentResourceLoader: its fields, the disk, Redis
    gen,              \* the generator of a FluentResourceLoader.resources call
    migration         \* a PLURALS transform: its source, its context, its value

vars == <<locales, resource_loader, use_isolating, bundle_cache, bundle_it, pc,
          msg_id, args, bundle_pointer, part_count, active_patterns, errors,
          current, ctl, stack, result, calls, longest_placeable, previous,
          cache_before, cursors, fluent_loader, gen, migration>>

(***************************************************************************)
(* Program constants and the bound of the model.                           *)
(***************************************************************************)
MAX_PART_LENGTH == 2500

MAX_PARTS == 1000

MaxCalls == 2

\* The _bundles() generators driven besides format_value's own.
CursorIds == {1, 2}

(***************************************************************************)
(* Strings.                                                                *)
(***************************************************************************)
RECURSIVE Rep(_, _)
Rep(s, n) ==
    IF n = 0 THEN ""
    ELSE LET h == Rep(s, n \div 2)
         IN  IF n % 2 = 0 THEN h \o h ELSE h \o h \o s

FSI == "<"

PDI == ">"

(***************************************************************************)
(* Runtime values: str, FluentInt, FluentNone, Python's None, and a native *)
(* object that is neither a str nor a FluentType.                          *)
(***************************************************************************)
Str(s) == [t |-> "str", s |-> s]

FluentInt(n) == [t |-> "num", n |-> n]

FluentNone(name) == [t |-> "none", name |-> name]

PyNone == [t |-> "None"]

NativeObject == [t |-> "obj"]

IsFluentType(v) == v.t \in {"num", "none"}

IsStr(v) == v.t = "str"

\* FluentType.format: a FluentNone shows its name or "???", a number its digits.
Format(v) ==
    IF v.t = "none" THEN (IF v.name = "" THEN "???" ELSE v.name)
    ELSE ToString(v.n)

(***************************************************************************)
(* Syntax tree nodes.  A Pattern is named by its identity `pid`; its       *)
(* elements are in the table Patterns below.                               *)
(***************************************************************************)
NoPattern == "<None>"

NoAttribute == "<None>"

TextElement(value) == [type |-> "TextElement", value |-> value]

Placeable(expression) == [type |-> "Placeable", expression |-> expression]

NeverIsolatingPlaceable(expression) ==
    [type |-> "NeverIsolatingPlaceable", expression |-> expression]

StringLiteral(value) == [type |-> "StringLiteral", value |-> value]

NumberLiteral(value) == [type |-> "NumberLiteral", value |-> value]

Identifier(name) == [type |-> "Identifier", name |-> name]

MessageReference(id, attribute) ==
    [type |-> "MessageReference", id |-> id, attribute |-> attribute]

NamedArgument(name, value) == [name |-> name, value |-> value]

CallArguments(positional, named) == [positional |-> positional, named |-> named]

NoArguments == [positional |-> <<>>, named |-> <<>>, absent |-> TRUE]

TermReference(id, attribute, arguments) ==
    [type |-> "TermReference", id |-> id, attribute |-> attribute,
     arguments |-> arguments]

VariableReference(name) == [type |-> "VariableReference", id |-> name]

FunctionReference(name, arguments) ==
    [type |-> "FunctionReference", id |-> name, arguments |-> arguments]

Variant(key, value, default) == [key |-> key, value |-> value, default |-> default]

SelectExpression(selector, variants) ==
    [type |-> "SelectExpression", selector |-> selector, variants |-> variants]

Pattern(pid) == [type |-> "Pattern", pid |-> pid]

\* Shorthands for the tables below.
Msg(id) == Placeable(MessageReference(id, NoAttribute))

Var(name) == Placeable(VariableReference(name))


Term(id) == Placeable(TermReference(id, NoAttribute, NoArguments))

Sel(selector, variants) == Placeable(SelectExpression(selector, variants))

Call(name, positional) ==
    Placeable(FunctionReference(name, CallArguments(positional, <<>>)))

(***************************************************************************)
(* The syntax trees of the model's resources.                              *)
(***************************************************************************)
BigLen == (MAX_PARTS \div 2) + 100

LongName == Rep("n", MAX_PART_LENGTH + 1)

NoAttributes == [a \in {} |-> NoPattern]

\* { $num -> [one] One *[other] Other }
PluralPatterns(prefix) ==
    (prefix \o "/plural" :>
        << Sel(VariableReference("num"),
               << Variant(Identifier("one"), prefix \o "/plural[one]", FALSE),
                  Variant(Identifier("other"), prefix \o "/plural[other]", TRUE) >>) >>)
    @@ (prefix \o "/plural[one]" :> << TextElement("One") >>)
    @@ (prefix \o "/plural[other]" :> << TextElement("Other") >>)

Patterns ==
    PluralPatterns("en") @@ PluralPatterns("tr")
    @@ ("en/hello" :> << TextElement("Hello") >>)
    @@ ("fr/hello" :> << TextElement("Bonjour") >>)
    @@ ("en/frnoval" :> << TextElement("English value") >>)
    @@ ("fr/frnoval.title" :> << TextElement("Titre") >>)
    @@ ("en/empty" :> << Placeable(StringLiteral("")) >>)
    @@ ("en/attronly.title" :> << TextElement("Title") >>)
    \* cyclic references
    @@ ("en/self1" :> << Msg("self1") >>)
    @@ ("en/self2" :> << Msg("self2"), TextElement(" "), Msg("self2") >>)
    @@ ("en/mutA" :> << Msg("mutB") >>)
    @@ ("en/mutB" :> << Msg("mutA"), Msg("mutA") >>)
    @@ ("en/viaterm" :> << Term("loop") >>)
    @@ ("en/-loop" :> << Msg("viaterm") >>)
    @@ ("en/pair" :> << Msg("hello"), TextElement(", "), Msg("hello") >>)
    \* select expressions
    @@ ("en/deffirst" :>
          << Sel(VariableReference("num"),
                 << Variant(Identifier("other"), "en/deffirst[other]", TRUE),
                    Variant(Identifier("one"), "en/deffirst[one]", FALSE) >>) >>)
    @@ ("en/deffirst[other]" :> << TextElement("Other") >>)
    @@ ("en/deffirst[one]" :> << TextElement("One") >>)
    @@ ("en/nodefault" :>
          << Sel(VariableReference("num"),
                 << Variant(Identifier("one"), "en/nodefault[one]", FALSE),
                    Variant(NumberLiteral(2), "en/nodefault[2]", FALSE) >>) >>)
    @@ ("en/nodefault[one]" :> << TextElement("One") >>)
    @@ ("en/nodefault[2]" :> << TextElement("Two") >>)
    @@ ("en/exact" :>
          << Sel(VariableReference("num"),
                 << Variant(NumberLiteral(5), "en/exact[5]", FALSE),
                    Variant(Identifier("one"), "en/exact[one]", FALSE),
                    Variant(Identifier("other"), "en/exact[other]", TRUE),
                    Variant(Identifier("a"), "en/exact[a]", FALSE) >>) >>)
    @@ ("en/exact[5]" :> << TextElement("Five") >>)
    @@ ("en/exact[one]" :> << TextElement("One") >>)
    @@ ("en/exact[other]" :> << TextElement("Other") >>)
    @@ ("en/exact[a]" :> << TextElement("A") >>)
    @@ ("en/symmetric" :>
          << Sel(StringLiteral("one"),
                 << Variant(NumberLiteral(1), "en/symmetric[1]", FALSE),
                    Variant(Identifier("x"), "en/symmetric[x]", TRUE) >>) >>)
    @@ ("en/symmetric[1]" :> << TextElement("Numeric key") >>)
    @@ ("en/symmetric[x]" :> << TextElement("Default") >>)
    \* selectors that give a None-tagged value
    @@ ("en/selnone" :>
          << Sel(VariableReference("num"),
                 << Variant(Identifier("num"), "en/selnone[num]", FALSE),
                    Variant(Identifier("one"), "en/selnone[one]", FALSE),
                    Variant(Identifier("other"), "en/selnone[other]", TRUE) >>) >>)
    @@ ("en/selnone[num]" :> << TextElement("Name") >>)
    @@ ("en/selnone[one]" :> << TextElement("One") >>)
    @@ ("en/selnone[other]" :> << TextElement("Other") >>)
    @@ ("en/selref" :>
          << Sel(MessageReference("missing", NoAttribute),
                 << Variant(Identifier("missing"), "en/selref[missing]", FALSE),
                    Variant(Identifier("other"), "en/selref[other]", TRUE) >>) >>)
    @@ ("en/selref[missing]" :> << TextElement("Missing") >>)
    @@ ("en/selref[other]" :> << TextElement("Default") >>)
    @@ ("en/selfn" :>
          << Sel(FunctionReference("BOOM", CallArguments(<< >>, << >>)),
                 << Variant(Identifier("other"), "en/selfn[other]", TRUE),
                    Variant(Identifier("BOOM"), "en/selfn[BOOM]", FALSE) >>) >>)
    @@ ("en/selfn[other]" :> << TextElement("Default") >>)
    @@ ("en/selfn[BOOM]" :> << TextElement("Boom") >>)
    \* references
    @@ ("en/badterm" :> << TextElement("a "), Term("missing"), TextElement(" b") >>)
    @@ ("en/barecall" :> << Term("brand"), TextElement("/"), Var("num") >>)
    @@ ("en/badref" :> << TextElement("a "), Msg("missing"), TextElement(" b") >>)
    @@ ("en/badattr" :> << Placeable(MessageReference("hello", "nope")) >>)
    @@ ("en/attrref" :> << Placeable(MessageReference("attronly", "title")) >>)
    @@ ("en/valref" :> << Msg("attronly") >>)
    @@ ("en/var" :> << TextElement("n="), Var("num") >>)
    @@ ("en/brandcall" :>
          << Placeable(TermReference("brand", NoAttribute,
                 CallArguments(<< NumberLiteral(1) >>,
                               << NamedArgument("case", StringLiteral("x")) >>))),
             TextElement("/"), Var("num") >>)
    @@ ("en/-brand" :> << TextElement("B"), Var("case"), Var("num") >>)
    \* functions
    @@ ("en/fnnum" :> << Call("NUMBER", << VariableReference("num") >>) >>)
    @@ ("en/fnboom" :> << Call("BOOM", <<>>), TextElement("!") >>)
    @@ ("en/fnunknown" :> << Call("NOPE", <<>>), TextElement("!") >>)
    \* resource limits
    @@ ("en/over" :> [i \in 1 .. MAX_PARTS + 1 |-> TextElement("a")])
    @@ ("en/selover" :>
          << Sel(NumberLiteral(1),
                 << Variant(Identifier("other"), "en/selover[other]", TRUE) >>) >>)
    @@ ("en/selover[other]" :> << Msg("over") >>)
    @@ ("en/fnover" :> << Call("NUMBER", << MessageReference("over", NoAttribute) >>) >>)
    @@ ("en/termover" :> << Term("tover") >>)
    @@ ("en/-tover" :> << Msg("over") >>)
    @@ ("en/longlit" :> << Placeable(StringLiteral(Rep("a", MAX_PART_LENGTH + 1))) >>)
    @@ ("en/fits" :> << Placeable(StringLiteral(Rep("a", MAX_PART_LENGTH))) >>)
    @@ ("en/longvar" :> << Var(LongName) >>)
    @@ ("en/kilo3" :> [i \in 1 .. 3 |-> TextElement(Rep("a", MAX_PARTS))])
    @@ ("en/threek" :> << Msg("kilo3") >>)
    @@ ("en/fnlong" :> << Call("NUMBER", << Var(LongName) >>) >>)
    @@ ("heavy/big" :> [i \in 1 .. BigLen |-> TextElement("a")])
    @@ ("heavy/twice" :> << Msg("big"), Msg("big") >>)
    @@ ("heavy/nested" :>
          [i \in 1 .. MAX_PARTS - BigLen + 1 |->
              IF i = 1 THEN Msg("big") ELSE TextElement("b")])

Elements(pid) == Patterns[pid]

\* An entry (Message or Term): its value Pattern and its attributes by name.
Entry(value, attributes) == [value |-> value, attributes |-> attributes]

Plain(prefix, id) == id :> Entry(prefix \o "/" \o id, NoAttributes)

\* A resource: the messages and the terms it defines.
Resources ==
    [ en_main |->
        [ messages |->
            Plain("en", "hello") @@ Plain("en", "frnoval") @@ Plain("en", "empty")
            @@ ("attronly" :> Entry(NoPattern, "title" :> "en/attronly.title"))
            @@ Plain("en", "self1") @@ Plain("en", "self2") @@ Plain("en", "mutA")
            @@ Plain("en", "mutB") @@ Plain("en", "viaterm") @@ Plain("en", "pair")
            @@ Plain("en", "plural")
            @@ Plain("en", "deffirst") @@ Plain("en", "nodefault")
            @@ Plain("en", "exact") @@ Plain("en", "symmetric")
            @@ Plain("en", "selnone") @@ Plain("en", "selref") @@ Plain("en", "selfn")
            @@ Plain("en", "badterm") @@ Plain("en", "barecall")
            @@ Plain("en", "badref") @@ Plain("en", "badattr")
            @@ Plain("en", "attrref") @@ Plain("en", "valref") @@ Plain("en", "var")
            @@ Plain("en", "brandcall") @@ Plain("en", "fnnum")
            @@ Plain("en", "fnboom") @@ Plain("en", "fnunknown")
            @@ Plain("en", "over") @@ Plain("en", "selover") @@ Plain("en", "fnover")
            @@ Plain("en", "termover") @@ Plain("en", "longlit")
            @@ Plain("en", "fits") @@ Plain("en", "longvar") @@ Plain("en", "kilo3")
            @@ Plain("en", "threek") @@ Plain("en", "fnlong"),
          terms |->
            ("loop" :> Entry("en/-loop", NoAttributes))
            @@ ("brand" :> Entry("en/-brand", NoAttributes))
            @@ ("tover" :> Entry("en/-tover", NoAttributes)) ],
      en_heavy |->
        [ messages |->
            Plain("heavy", "big") @@ Plain("heavy", "twice")
            @@ Plain("heavy", "nested"),
          terms |-> [a \in {} |-> Entry(NoPattern, NoAttributes)] ],
      fr_main |->
        [ messages |->
            Plain("fr", "hello")
            @@ ("frnoval" :> Entry(NoPattern, "title" :> "fr/frnoval.title")),
          terms |-> [a \in {} |-> Entry(NoPattern, NoAttributes)] ],
      tr_main |->
        [ messages |-> Plain("tr", "plural"),
          terms |-> [a \in {} |-> Entry(NoPattern, NoAttributes)] ] ]


(***************************************************************************)
(* The resource loader: for a locale, the resource groups it yields, each  *)
(* a list of resources.                                                    *)
(***************************************************************************)
Loaders ==
    [ full |->
        [ fr |-> << << "fr_main" >> >>,
          en |-> << << "en_main" >> >>,
          tr |-> << << "tr_main" >> >> ],
      enonly |->
        [ fr |-> << >>, en |-> << << "en_main", "en_heavy" >> >>, tr |-> << >> ],
      roots |->
        [ fr |-> << >>, en |-> << << "en_heavy" >>, << "en_main" >> >>, tr |-> << >> ],
      none |->
        [ fr |-> << >>, en |-> << >>, tr |-> << >> ] ]

resources(loader, locale) == Loaders[loader][locale]

(***************************************************************************)
(* FluentBundle: the locales it was built for and the resources added.     *)
(* No two resources of one group define the same identifier.               *)
(***************************************************************************)
\* Mutant of FluentBundle: the bundle is built for the first locale alone.
FluentBundle_firstlocale(locs, group) == [locales |-> << locs[1] >>, resources |-> group]

FluentBundle(locs, group) == [locales |-> locs, resources |-> group]


Table(bundle, term, k) ==
    IF term THEN Resources[bundle.resources[k]].terms
    ELSE Resources[bundle.resources[k]].messages

Defines(bundle, id, term) ==
    \E k \in 1 .. Len(bundle.resources) : id \in DOMAIN Table(bundle, term, k)

\* FluentBundle._lookup; a LookupError when Defines is false.
Lookup(bundle, id, term) ==
    LET k == CHOOSE k \in 1 .. Len(bundle.resources) :
                 id \in DOMAIN Table(bundle, term, k)
    IN  Table(bundle, term, k)[id]

has_message(bundle, id) == Defines(bundle, id, FALSE)

get_message(bundle, id) == Lookup(bundle, id, FALSE)

\* FluentBundle._plural_form: the plural category of a number in the
\* bundle's first locale.
plural_form(bundle, n) ==
    LET locale == bundle.locales[1]
    IN  IF locale = "en" THEN (IF n = 1 THEN "one" ELSE "other")
        ELSE IF locale = "fr" THEN (IF n \in {0, 1} THEN "one" ELSE "other")
        ELSE "other"

\* The bundle's function registry, and what a call of a function gives:
\* a value, or the exception it raises.
Functions == {"NUMBER", "BOOM"}

Invoke(name, positional) ==
    IF name = "NUMBER" /\ Len(positional) > 0 /\ IsFluentType(positional[1])
    THEN [exc |-> "", val |-> positional[1]]
    ELSE [exc |-> "TypeError", val |-> PyNone]

(***************************************************************************)
(* FluentLocalization._iterate_bundles: the generator's position is the    *)
(* locale index first_loc and the number of groups already taken from the  *)
(* loader for that locale.  IterNext is next() on it.                      *)
(***************************************************************************)
IterStart == [first_loc |-> 0, group |-> 0]

RECURSIVE IterNext(_, _, _)
IterNext(it, locs, loader) ==
    IF it.first_loc >= Len(locs)
    THEN [stop |-> TRUE, it |-> it]
    ELSE LET suffix == SubSeq(locs, it.first_loc + 1, Len(locs))
             groups == resources(loader, suffix[1])
         IN  IF it.group < Len(groups)
             THEN [stop |-> FALSE,
                   bundle |-> FluentBundle(suffix, groups[it.group + 1]),
                   it |-> [first_loc |-> it.first_loc, group |-> it.group + 1]]
             ELSE IterNext([first_loc |-> it.first_loc + 1, group |-> 0],
                           locs, loader)

(***************************************************************************)
(* The resolver's pure parts.                                              *)
(***************************************************************************)
\* resolve(fluentish, env): the value, or the exception raised.
resolve(fluentish) ==
    IF IsFluentType(fluentish)
    THEN [exc |-> "", val |-> Str(Format(fluentish))]
    ELSE IF IsStr(fluentish) /\ Len(fluentish.s) > MAX_PART_LENGTH
         THEN [exc |-> "ValueError", val |-> fluentish]
         ELSE [exc |-> "", val |-> fluentish]

is_number(val) == val.t = "num"

IsNone(val) == val.t \in {"None", "none"}

\* Mutant of match: the None checks are missing and the values are compared
\* by the text they show.
match_shown(val1, val2, bundle) ==
    LET shown(v) == IF v.t = "none" THEN v.name
                    ELSE IF v.t = "str" THEN v.s
                    ELSE IF v.t = "num" THEN ToString(v.n) ELSE ""
    IN  IF is_number(val1) /\ ~is_number(val2)
        THEN plural_form(bundle, val1.n) = shown(val2)
        ELSE shown(val1) = shown(val2)

\* Mutant of match: values are compared by equality alone, without the
\* plural category of a number.
match_equality(val1, val2, bundle) ==
    ~IsNone(val1) /\ ~IsNone(val2) /\ val1 = val2

RECURSIVE match(_, _, _)
match(val1, val2, bundle) ==
    IF IsNone(val1) THEN FALSE
    ELSE IF IsNone(val2) THEN FALSE
    ELSE IF is_number(val1) /\ ~is_number(val2)
         THEN Str(plural_form(bundle, val1.n)) = val2
    ELSE IF ~is_number(val1) /\ is_number(val2)
         THEN match(val2, val1, bundle)
    ELSE val1 = val2

\* variant.key(env): an Identifier gives its name, a NumberLiteral its value.
VariantKey(variant) ==
    IF variant.key.type = "Identifier" THEN Str(variant.key.name)
    ELSE FluentInt(variant.key.value)

\* Mutant of SelectLoop: the break is missing, so the last match wins.
SelectLoop_nobreak(variants, i, default, key, bundle) ==
    LET matching == {j \in i .. Len(variants) :
                        match(key, VariantKey(variants[j]), bundle)}
        defaults == {j \in 1 .. Len(variants) : variants[j].default}
    IN  IF matching # {} THEN CHOOSE j \in matching : \A k \in matching : k <= j
        ELSE IF defaults # {} THEN CHOOSE j \in defaults : \A k \in defaults : k <= j
        ELSE default

\* The loop of select_from_select_expression from variant i on; 0 is None.
RECURSIVE SelectLoop(_, _, _, _, _)
SelectLoop(variants, i, default, key, bundle) ==
    IF i > Len(variants) THEN default
    ELSE LET d == IF variants[i].default THEN i ELSE default
         IN  IF match(key, VariantKey(variants[i]), bundle) THEN i
             ELSE SelectLoop(variants, i + 1, d, key, bundle)

select_from_select_expression(node, key, bundle) ==
    SelectLoop(node.variants, 1, 0, key, bundle)

\* utils.reference_to_id
reference_to_id(node) ==
    (IF node.type = "TermReference" THEN "-" ELSE "") \o node.id
    \o (IF node.attribute = NoAttribute THEN "" ELSE "." \o node.attribute)

\* A literal's value: StringLiteral.__call__ and NumberLiteral.__call__.
LiteralValue(node) ==
    IF node.type = "StringLiteral" THEN Str(node.value) ELSE FluentInt(node.value)

Error(kind, what) == [kind |-> kind, what |-> what]

\* CurrentEnvironment
CurrentEnvironment(a, error_for_missing_arg) ==
    [args |-> a, error_for_missing_arg |-> error_for_missing_arg]

\* Mutant of modified_for_term_reference: missing arguments stay reported.
modified_for_term_reference_reporting(kwargs) == CurrentEnvironment(kwargs, TRUE)

\* ResolverEnvironment.modified_for_term_reference: the replacement scope.
modified_for_term_reference(kwargs) == CurrentEnvironment(kwargs, FALSE)

\* The body of EntryReference.__call__'s try block up to pattern(env).
EntryReferenceCtl(node, bundle) ==
    LET term == node.type = "TermReference"
    IN  IF ~Defines(bundle, node.id, term)
        THEN [op |-> "raise", exc |-> "LookupError"]
        ELSE LET entry == Lookup(bundle, node.id, term)
             IN  IF node.attribute # NoAttribute
                 THEN IF node.attribute \in DOMAIN entry.attributes
                      THEN [op |-> "call",
                            node |-> Pattern(entry.attributes[node.attribute])]
                      ELSE [op |-> "raise", exc |-> "LookupError"]
                 ELSE IF entry.value = NoPattern
                      THEN [op |-> "raise", exc |-> "TypeError"]
                      ELSE [op |-> "call", node |-> Pattern(entry.value)]

\* Mutant of EntryReferenceCatches: no except clause.
EntryReferenceCatches_none(exc) == FALSE

\* Mutant of EntryReferenceCatches: except Exception.
EntryReferenceCatches_all(exc) == TRUE

\* Which exceptions EntryReference.__call__'s except clause catches.
EntryReferenceCatches(exc) == exc = "LookupError"

\* Mutant of FunctionResult: a failure is not reported.
FunctionResult_silent(node, positional) ==
    IF node.id \notin Functions \/ Invoke(node.id, positional).exc # ""
    THEN [error |-> Error("", ""), val |-> FluentNone(node.id \o "()")]
    ELSE [error |-> Error("", ""), val |-> Invoke(node.id, positional).val]

\* FunctionReference.__call__ once its arguments are evaluated.
FunctionResult(node, positional) ==
    IF node.id \notin Functions
    THEN [error |-> Error("ReferenceError", "Unknown function: " \o node.id),
          val |-> FluentNone(node.id \o "()")]
    ELSE LET r == Invoke(node.id, positional)
         IN  IF r.exc = ""
             THEN [error |-> Error("", ""), val |-> r.val]
             ELSE [error |-> Error(r.exc, node.id), val |-> FluentNone(node.id \o "()")]


(***************************************************************************)
(* The inputs: how a FluentLocalization is constructed, and the calls of   *)
(* format_value made on it.                                                *)
(***************************************************************************)
Configs ==
    { [locales |-> << >>, loader |-> "full", use_isolating |-> FALSE],
      [locales |-> << "fr", "en" >>, loader |-> "full", use_isolating |-> FALSE],
      [locales |-> << "fr", "en" >>, loader |-> "enonly", use_isolating |-> FALSE],
      [locales |-> << "fr", "en" >>, loader |-> "none", use_isolating |-> FALSE],
      [locales |-> << "en" >>, loader |-> "full", use_isolating |-> TRUE],
      [locales |-> << "tr", "en" >>, loader |-> "full", use_isolating |-> FALSE],
      [locales |-> << "en" >>, loader |-> "roots", use_isolating |-> FALSE] }

NoArgs == [a \in {} |-> PyNone]

ArgSets ==
    { NoArgs,
      "num" :> FluentInt(1),
      "num" :> FluentInt(5),
      "num" :> Str("a"),
      "num" :> NativeObject }

\* Messages whose resolution reads no argument are asked for without any.
ArgMessages ==
    {"plural", "deffirst", "nodefault", "exact", "var", "brandcall", "fnnum",
     "selnone", "barecall"}

PlainMessages ==
    {"hello", "frnoval", "empty", "attronly", "absent", "self1", "self2", "mutA",
     "viaterm", "pair", "symmetric", "badref", "badattr", "attrref", "valref", "fnboom",
     "fnunknown", "over", "selover", "fnover", "termover", "longlit", "fits",
     "longvar", "kilo3", "threek", "fnlong", "big", "twice", "nested",
     "selref", "selfn", "badterm"}

Requests ==
    { [msg_id |-> m, args |-> a] : m \in ArgMessages, a \in ArgSets }
    \cup { [msg_id |-> m, args |-> NoArgs] : m \in PlainMessages }

NoResult == [kind |-> "none"]

NoPrevious == [kind |-> "none"]

Returned(val) == [kind |-> "value", val |-> val]

Raised(exc) == [kind |-> "raise", exc |-> exc]

Idle == [op |-> "idle"]

CallNode(node) == [op |-> "call", node |-> node]

Ret(val) == [op |-> "ret", val |-> val]

Raise(exc) == [op |-> "raise", exc |-> exc]

Top == stack[Len(stack)]

Pop == SubSeq(stack, 1, Len(stack) - 1)

\* env.context of the resolution in progress.
Context == bundle_cache[bundle_pointer + 1]

Calling(type) == pc = "resolve" /\ ctl.op = "call" /\ ctl.node.type = type

Returning(f) ==
    pc = "resolve" /\ ctl.op = "ret" /\ stack # << >> /\ Top.f = f

Max(a, b) == IF a > b THEN a ELSE b

(***************************************************************************)
(* FluentLocalization.__init__                                             *)
(***************************************************************************)
InstanceInit(config) ==
    /\ locales = config.locales
    /\ resource_loader = config.loader
    /\ use_isolating = config.use_isolating
    /\ bundle_cache = << >>
    /\ bundle_it = IterStart
    /\ pc = "idle"
    /\ msg_id = ""
    /\ args = NoArgs
    /\ bundle_pointer = 0
    /\ part_count = 0
    /\ active_patterns = {}
    /\ errors = << >>
    /\ current = CurrentEnvironment(NoArgs, TRUE)
    /\ ctl = Idle
    /\ stack = << >>
    /\ result = NoResult
    /\ calls = 0
    /\ longest_placeable = 0
    /\ previous = NoPrevious
    /\ cache_before = [len |-> 0, it |-> IterStart]
    /\ cursors = [c \in CursorIds |->
                     [pointer |-> 0, finished |-> FALSE, yielded |-> << >>,
                      at |-> "check", pulled |-> << >>, raced |-> FALSE]]

\* No FluentResourceLoader is in use: the instance's loader is one of Loaders.
NoMigration ==
    [state |-> "none", source |-> << >>, plural_categories |-> << >>,
     replace |-> FALSE, value |-> << >>]

NoGenerator ==
    [state |-> "none", locale |-> "", resource_ids |-> << >>, root |-> 0, i |-> 0,
     resources |-> << >>, yielded |-> << >>, exc |-> ""]

Init ==
    /\ \E c \in Configs : InstanceInit(c)
    /\ fluent_loader =
          [in_memory |-> FALSE, roots |-> << >>, DI_LANG |-> "",
           TRANSLATION_STATIC_FILES_PATH |-> "", files |-> {}, redis |-> {}]
    /\ gen = NoGenerator
    /\ migration = NoMigration

config_vars == <<locales, resource_loader, use_isolating>>

\* What format_value and the resolver never write: the configuration, the
\* other generators over the bundle cache, and a FluentResourceLoader.
outside_vars == <<config_vars, cursors, fluent_loader, gen, migration>>

env_vars == <<part_count, active_patterns, errors, current, longest_placeable>>

call_vars == <<msg_id, args, calls, previous, cache_before>>

cache_vars == <<bundle_cache, bundle_it>>

(***************************************************************************)
(* FluentLocalization.format_value and _bundles                            *)
(***************************************************************************)
\* Mutant of FreshEnvironment: the part count and the error list of the
\* resolution before are used again.
FreshEnvironment_reused(old) ==
    [part_count |-> old.part_count, active_patterns |-> {}, errors |-> old.errors]

\* The ResolverEnvironment a resolution starts with: part_count 0, no
\* active pattern, and the empty error list format_pattern gives it.
FreshEnvironment(old) ==
    [part_count |-> 0, active_patterns |-> {}, errors |-> << >>]

\* The environment the variables hold.
Environment ==
    [part_count |-> part_count, active_patterns |-> active_patterns,
     errors |-> errors]

\* A call of format_value(msg_id, args): the for loop asks _bundles() for
\* its first bundle.  No resolution is in progress: the environment
\* variables hold what a fresh one holds.  `previous` keeps the outcome of
\* the resolution that has just ended when this call has the same msg_id
\* and args.
FormatValue(request) ==
    /\ pc \in {"idle", "done"}
    /\ calls < MaxCalls
    /\ calls' = calls + 1
    /\ msg_id' = request.msg_id
    /\ args' = request.args
    /\ previous' =
          IF /\ pc = "done"
             /\ bundle_pointer < Len(bundle_cache)
             /\ request = [msg_id |-> msg_id, args |-> args]
          THEN [kind |-> "resolved", bundle |-> bundle_cache[bundle_pointer + 1],
                result |-> result, errors |-> errors]
          ELSE NoPrevious
    /\ cache_before' = [len |-> Len(bundle_cache), it |-> bundle_it]
    /\ bundle_pointer' = 0
    /\ pc' = "bundles"
    /\ result' = NoResult
    /\ part_count' = FreshEnvironment(Environment).part_count
    /\ active_patterns' = FreshEnvironment(Environment).active_patterns
    /\ errors' = FreshEnvironment(Environment).errors
    /\ current' = CurrentEnvironment(NoArgs, TRUE)
    /\ longest_placeable' = 0
    /\ ctl' = Idle
    /\ stack' = << >>
    /\ UNCHANGED <<outside_vars, cache_vars>>

\* Mutant of Fallback: the loop's end returns an empty string.
Fallback_empty(id) == ""

\* What format_value returns when the loop over the bundles ends.
Fallback(id) == id

\* Mutant of CacheMiss: the generator asks the iterator every time.
CacheMiss_always(pointer, cache) == TRUE

CacheMiss_ahead(pointer, cache) == pointer + 1 >= Len(cache)

\* _bundles: bundle_pointer == len(self._bundle_cache)
CacheMiss(pointer, cache) == pointer = Len(cache)

\* One turn of _bundles' while loop up to its yield; when the generator
\* returns, format_value's loop ends and it returns msg_id.
Bundles ==
    /\ pc = "bundles"
    /\ IF CacheMiss(bundle_pointer, bundle_cache)
       THEN LET n == IterNext(bundle_it, locales, resource_loader)
            IN  IF n.stop
                THEN /\ pc' = "done"
                     /\ result' = Returned(Fallback(msg_id))
                     /\ UNCHANGED cache_vars
                ELSE /\ bundle_cache' = Append(bundle_cache, n.bundle)
                     /\ bundle_it' = n.it
                     /\ pc' = "body"
                     /\ UNCHANGED result
       ELSE /\ pc' = "body"
            /\ UNCHANGED <<cache_vars, result>>
    /\ UNCHANGED <<outside_vars, call_vars, env_vars, bundle_pointer, ctl, stack>>

\* next() on another _bundles() generator c, between two steps of the
\* thread: one turn of the while loop up to its yield (the pointer moves on
\* when the generator is resumed), or the generator's return.
CursorNext(c) ==
    /\ pc \in {"idle", "done", "resolve"}
    /\ ~cursors[c].finished
    /\ LET cur == cursors[c]
           n == IterNext(bundle_it, locales, resource_loader)
       IN  IF CacheMiss(cur.pointer, bundle_cache)
           THEN IF n.stop
                THEN /\ cursors' = [cursors EXCEPT ![c].finished = TRUE]
                     /\ UNCHANGED cache_vars
                ELSE /\ bundle_cache' = Append(bundle_cache, n.bundle)
                     /\ bundle_it' = n.it
                     /\ cursors' = [cursors EXCEPT
                           ![c].yielded =
                               Append(@, Append(bundle_cache, n.bundle)[cur.pointer + 1]),
                           ![c].pointer = @ + 1]
           ELSE /\ cursors' = [cursors EXCEPT
                      ![c].yielded = Append(@, bundle_cache[cur.pointer + 1]),
                      ![c].pointer = @ + 1]
                /\ UNCHANGED cache_vars
    /\ UNCHANGED <<config_vars, call_vars, env_vars, bundle_pointer, pc, ctl, stack,
                   result, fluent_loader, gen, migration>>

\* Mutant of Qualifies: the check of msg.value is missing.
Qualifies_novaluecheck(bundle, id) == has_message(bundle, id)

\* Whether format_value's loop body formats the message with this bundle.
Qualifies(bundle, id) ==
    has_message(bundle, id) /\ get_message(bundle, id).value # NoPattern

\* The body of format_value's loop for the bundle just yielded: continue
\* (and _bundles moves its pointer on), or bundle.format_pattern, which
\* makes a fresh ResolverEnvironment and calls the pattern.
LoopBody ==
    /\ pc = "body"
    /\ IF Qualifies(Context, msg_id)
       THEN /\ pc' = "resolve"
            /\ part_count' = FreshEnvironment(Environment).part_count
            /\ active_patterns' = FreshEnvironment(Environment).active_patterns
            /\ errors' = FreshEnvironment(Environment).errors
            /\ current' = CurrentEnvironment(args, TRUE)
            /\ longest_placeable' = 0
            /\ ctl' = CallNode(Pattern(get_message(Context, msg_id).value))
            /\ stack' = << >>
            /\ UNCHANGED bundle_pointer
       ELSE /\ pc' = "bundles"
            /\ bundle_pointer' = bundle_pointer + 1
            /\ UNCHANGED <<env_vars, ctl, stack>>
    /\ UNCHANGED <<outside_vars, call_vars, cache_vars, result>>

\* The pattern returned: format_pattern returns (val, errors) and
\* format_value returns val.
FormatPatternReturn ==
    /\ pc = "resolve"
    /\ ctl.op = "ret"
    /\ stack = << >>
    /\ pc' = "done"
    /\ result' = Returned(ctl.val.s)
    /\ ctl' = Idle
    /\ UNCHANGED <<outside_vars, call_vars, cache_vars, env_vars, bundle_pointer, stack>>


(***************************************************************************)
(* The resolver tree (resolver.py)                                         *)
(***************************************************************************)
resolver_frame == <<outside_vars, call_vars, cache_vars, bundle_pointer, pc, result>>

\* Whether Pattern.__call__'s budget guard raises.
TooManyParts(pid, count) == Len(Elements(pid)) > MAX_PARTS - count

\* Pattern.__call__ up to the evaluation of its first element.
PatternCall ==
    /\ Calling("Pattern")
    /\ LET self == ctl.node.pid
           elements == Elements(self)
       IN  IF self \in active_patterns
           THEN /\ errors' = Append(errors, Error("CyclicReference", "Cyclic reference"))
                /\ ctl' = Ret(FluentNone(""))
                /\ UNCHANGED <<active_patterns, part_count, stack>>
           ELSE IF TooManyParts(self, part_count)
           THEN \* added to active_patterns and removed again before the raise
                /\ ctl' = Raise("ValueError")
                /\ UNCHANGED <<active_patterns, part_count, stack, errors>>
           ELSE IF Len(elements) = 0
           THEN /\ ctl' = Ret(Str(""))
                /\ UNCHANGED <<active_patterns, part_count, stack, errors>>
           ELSE /\ active_patterns' = active_patterns \cup {self}
                /\ stack' = Append(stack, [f |-> "Pattern", pid |-> self, i |-> 1,
                                           acc |-> "", bad |-> FALSE])
                /\ ctl' = CallNode(elements[1])
                /\ UNCHANGED <<part_count, errors>>
    /\ UNCHANGED <<resolver_frame, current, longest_placeable>>

\* What a pattern charges to part_count when its elements are joined.
PartsCharged(pid) == Len(Elements(pid))

\* Mutant of ActiveAfter: the pattern is not removed when it returns.
ActiveAfter_kept(active, pid) == active

\* active_patterns when the pattern returns: env.active_patterns.remove(self)
ActiveAfter(active, pid) == active \ {pid}

\* Pattern.__call__: element i returned; resolve() it, and go on with the
\* next element or, after the last, join the parts, charge part_count, leave
\* active_patterns and return.  str.join raises TypeError, after all
\* elements, if a part is not a str.
PatternElement ==
    /\ Returning("Pattern")
    /\ LET fr == Top
           elements == Elements(fr.pid)
           r == resolve(ctl.val)
           isstr == r.exc = "" /\ IsStr(r.val)
           acc == IF isstr THEN fr.acc \o r.val.s ELSE fr.acc
           bad == fr.bad \/ ~isstr
       IN  IF r.exc # ""
           THEN /\ ctl' = Raise(r.exc)
                /\ UNCHANGED <<stack, part_count, active_patterns>>
           ELSE IF fr.i < Len(elements)
           THEN /\ stack' = Append(Pop, [fr EXCEPT !.i = fr.i + 1, !.acc = acc,
                                                   !.bad = bad])
                /\ ctl' = CallNode(elements[fr.i + 1])
                /\ UNCHANGED <<part_count, active_patterns>>
           ELSE IF bad
           THEN /\ ctl' = Raise("TypeError")
                /\ UNCHANGED <<stack, part_count, active_patterns>>
           ELSE /\ part_count' = part_count + PartsCharged(fr.pid)
                /\ active_patterns' = ActiveAfter(active_patterns, fr.pid)
                /\ stack' = Pop
                /\ ctl' = Ret(Str(acc))
    /\ UNCHANGED <<resolver_frame, current, errors, longest_placeable>>

\* TextElement.__call__
TextElementCall ==
    /\ Calling("TextElement")
    /\ ctl' = Ret(Str(ctl.node.value))
    /\ UNCHANGED <<resolver_frame, env_vars, stack>>

\* StringLiteral.__call__ and NumberLiteral.__call__
LiteralCall ==
    /\ pc = "resolve" /\ ctl.op = "call"
    /\ ctl.node.type \in {"StringLiteral", "NumberLiteral"}
    /\ ctl' = Ret(LiteralValue(ctl.node))
    /\ UNCHANGED <<resolver_frame, env_vars, stack>>

\* Placeable.__call__ and NeverIsolatingPlaceable.__call__: evaluate the
\* expression.
PlaceableCall ==
    /\ pc = "resolve" /\ ctl.op = "call"
    /\ ctl.node.type \in {"Placeable", "NeverIsolatingPlaceable"}
    /\ stack' = Append(stack, [f |-> "Placeable",
                               never |-> ctl.node.type = "NeverIsolatingPlaceable"])
    /\ ctl' = CallNode(ctl.node.expression)
    /\ UNCHANGED <<resolver_frame, env_vars>>

\* Placeable.__call__: the expression returned; resolve() it and wrap it in
\* the isolation marks.
PlaceableReturn ==
    LET \* The text a placeable resolves its expression's value to.
        PlaceableText(val) ==
            IF IsFluentType(val) THEN Format(val) ELSE IF IsStr(val) THEN val.s ELSE ""
    IN
        /\ Returning("Placeable")
        /\ LET r == resolve(ctl.val)
           IN  IF r.exc # ""
               THEN ctl' = Raise(r.exc) /\ UNCHANGED stack
               ELSE IF Top.never \/ ~use_isolating
               THEN ctl' = Ret(r.val) /\ stack' = Pop
               ELSE IF IsStr(r.val)
               THEN ctl' = Ret(Str(FSI \o r.val.s \o PDI)) /\ stack' = Pop
               ELSE ctl' = Raise("TypeError") /\ UNCHANGED stack
        /\ longest_placeable' = Max(longest_placeable, Len(PlaceableText(ctl.val)))
        /\ UNCHANGED <<resolver_frame, part_count, active_patterns, errors, current>>

\* EntryReference.__call__ for a MessageReference: the try block up to
\* pattern(env).
MessageReferenceCall ==
    /\ Calling("MessageReference")
    /\ stack' = Append(stack, [f |-> "EntryReference", node |-> ctl.node])
    /\ ctl' = EntryReferenceCtl(ctl.node, Context)
    /\ UNCHANGED <<resolver_frame, env_vars>>

\* TermReference.__call__: the arguments, the with block of
\* modified_for_term_reference, and EntryReference.__call__ inside it.
TermReferenceCall ==
    LET \* {kwarg.name.name: kwarg.value(env) for kwarg in arguments.named}
        Kwargs(named) ==
            [name \in {named[k].name : k \in 1 .. Len(named)} |->
                LiteralValue(named[CHOOSE k \in 1 .. Len(named) : named[k].name = name].value)]
    IN
        /\ Calling("TermReference")
        /\ LET node == ctl.node
               given == "absent" \notin DOMAIN node.arguments
               positional == given /\ Len(node.arguments.positional) > 0
               kwargs == IF given THEN Kwargs(node.arguments.named) ELSE NoArgs
           IN  /\ errors' =
                     IF positional
                     THEN Append(errors, Error("FormatError", reference_to_id(node)))
                     ELSE errors
               /\ current' = modified_for_term_reference(kwargs)
               /\ stack' = stack \o << [f |-> "modified", old_current |-> current],
                                       [f |-> "EntryReference", node |-> node] >>
               /\ ctl' = EntryReferenceCtl(node, Context)
        /\ UNCHANGED <<resolver_frame, part_count, active_patterns, longest_placeable>>

\* EntryReference.__call__: return pattern(env).
EntryReferenceReturn ==
    /\ Returning("EntryReference")
    /\ stack' = Pop
    /\ UNCHANGED <<resolver_frame, env_vars, ctl>>

\* ResolverEnvironment.modified after its yield: the with block of
\* TermReference.__call__ ended without an exception.
ModifiedExit ==
    /\ Returning("modified")
    /\ current' = Top.old_current
    /\ stack' = Pop
    /\ UNCHANGED <<resolver_frame, part_count, active_patterns, errors,
                   longest_placeable, ctl>>

\* Mutant of VariableReferenceResult: the missing argument is always
\* reported and an argument of any type is returned as it is.
VariableReferenceResult_unchecked(node, cur) ==
    IF node.id \notin DOMAIN cur.args
    THEN [error |-> Error("ReferenceError", "Unknown external: " \o node.id),
          val |-> FluentNone(node.id)]
    ELSE [error |-> Error("", ""), val |-> cur.args[node.id]]

\* VariableReference.__call__: the error it appends (kind "" for none) and
\* the value it returns, in the scope cur.
VariableReferenceResult(node, cur) ==
    LET name == node.id
    IN  IF name \notin DOMAIN cur.args
        THEN [error |-> IF cur.error_for_missing_arg
                        THEN Error("ReferenceError", "Unknown external: " \o name)
                        ELSE Error("", ""),
              val |-> FluentNone(name)]
        ELSE LET arg_val == cur.args[name]
             IN  IF IsFluentType(arg_val) \/ IsStr(arg_val)
                 THEN [error |-> Error("", ""), val |-> arg_val]
                 ELSE [error |-> Error("TypeError", name), val |-> FluentNone(name)]

\* VariableReference.__call__
VariableReferenceCall ==
    /\ Calling("VariableReference")
    /\ LET r == VariableReferenceResult(ctl.node, current)
       IN  /\ errors' = IF r.error.kind = "" THEN errors ELSE Append(errors, r.error)
           /\ ctl' = Ret(r.val)
    /\ UNCHANGED <<resolver_frame, part_count, active_patterns, current,
                   longest_placeable, stack>>

\* SelectExpression.__call__: evaluate the selector.
SelectExpressionCall ==
    /\ Calling("SelectExpression")
    /\ stack' = Append(stack, [f |-> "SelectExpression", node |-> ctl.node,
                               body |-> FALSE, key |-> PyNone, found |-> 0])
    /\ ctl' = CallNode(ctl.node.selector)
    /\ UNCHANGED <<resolver_frame, env_vars>>

\* select_from_select_expression: the selector returned the key; find the
\* variant and call its value.  found.value on None raises AttributeError.
SelectFromSelectExpression ==
    /\ Returning("SelectExpression")
    /\ ~Top.body
    /\ LET node == Top.node
           found == select_from_select_expression(node, ctl.val, Context)
       IN  IF found = 0
           THEN ctl' = Raise("AttributeError") /\ UNCHANGED stack
           ELSE /\ ctl' = CallNode(Pattern(node.variants[found].value))
                /\ stack' = Append(Pop, [Top EXCEPT !.body = TRUE, !.key = ctl.val,
                                                    !.found = found])
    /\ UNCHANGED <<resolver_frame, env_vars>>

\* select_from_select_expression: return found.value(env).
SelectReturn ==
    /\ Returning("SelectExpression")
    /\ Top.body
    /\ stack' = Pop
    /\ UNCHANGED <<resolver_frame, env_vars, ctl>>

\* FunctionReference.__call__: evaluate the positional arguments, or, with
\* none, look the function up and call it.
FunctionReferenceCall ==
    /\ Calling("FunctionReference")
    /\ LET node == ctl.node
       IN  IF Len(node.arguments.positional) > 0
           THEN /\ stack' = Append(stack, [f |-> "FunctionReference", node |-> node,
                                           i |-> 1, args |-> << >>])
                /\ ctl' = CallNode(node.arguments.positional[1])
                /\ UNCHANGED errors
           ELSE LET r == FunctionResult(node, << >>)
                IN  /\ errors' = IF r.error.kind = "" THEN errors
                                 ELSE Append(errors, r.error)
                    /\ ctl' = Ret(r.val)
                    /\ UNCHANGED stack
    /\ UNCHANGED <<resolver_frame, part_count, active_patterns, current,
                   longest_placeable>>

\* FunctionReference.__call__: positional argument i returned; evaluate the
\* next one or look the function up and call it.
FunctionArgument ==
    /\ Returning("FunctionReference")
    /\ LET fr == Top
           positional == fr.node.arguments.positional
           given == Append(fr.args, ctl.val)
       IN  IF fr.i < Len(positional)
           THEN /\ stack' = Append(Pop, [fr EXCEPT !.i = fr.i + 1, !.args = given])
                /\ ctl' = CallNode(positional[fr.i + 1])
                /\ UNCHANGED errors
           ELSE LET r == FunctionResult(fr.node, given)
                IN  /\ errors' = IF r.error.kind = "" THEN errors
                                 ELSE Append(errors, r.error)
                    /\ ctl' = Ret(r.val)
                    /\ stack' = Pop
    /\ UNCHANGED <<resolver_frame, part_count, active_patterns, current,
                   longest_placeable>>

\* An exception leaves the innermost frame: EntryReference.__call__'s except
\* clause handles a LookupError; no other frame has a handler, and none has
\* a finally.
Unwind ==
    /\ pc = "resolve"
    /\ ctl.op = "raise"
    /\ stack # << >>
    /\ IF Top.f = "EntryReference" /\ EntryReferenceCatches(ctl.exc)
       THEN LET ref_id == reference_to_id(Top.node)
            IN  /\ errors' = Append(errors, Error("UnknownReference", ref_id))
                /\ ctl' = Ret(FluentNone("{" \o ref_id \o "}"))
       ELSE UNCHANGED <<errors, ctl>>
    /\ stack' = Pop
    /\ UNCHANGED <<resolver_frame, part_count, active_patterns, current,
                   longest_placeable>>

\* The exception leaves the pattern called by format_pattern, and so
\* format_pattern and format_value.
FormatValueRaises ==
    /\ pc = "resolve"
    /\ ctl.op = "raise"
    /\ stack = << >>
    /\ pc' = "done"
    /\ result' = Raised(ctl.exc)
    /\ UNCHANGED <<outside_vars, call_vars, cache_vars, env_vars, bundle_pointer,
                   ctl, stack>>

Next ==
    \/ \E request \in Requests : FormatValue(request)
    \/ Bundles
    \/ LoopBody
    \/ FormatPatternReturn
    \/ FormatValueRaises
    \/ PatternCall
    \/ PatternElement
    \/ TextElementCall
    \/ LiteralCall
    \/ PlaceableCall
    \/ PlaceableReturn
    \/ MessageReferenceCall
    \/ TermReferenceCall
    \/ EntryReferenceReturn
    \/ ModifiedExit
    \/ VariableReferenceCall
    \/ SelectExpressionCall
    \/ SelectFromSelectExpression
    \/ SelectReturn
    \/ FunctionReferenceCall
    \/ FunctionArgument
    \/ Unwind

Spec == Init /\ [][Next]_vars

(***************************************************************************)
(* The bundle cache under several generators: format_value calls for       *)
(* messages of plain text, interleaved with next() on the other            *)
(* _bundles() generators.                                                  *)
(***************************************************************************)
NextCache ==
    \/ \E m \in {"hello", "frnoval", "absent"} :
           FormatValue([msg_id |-> m, args |-> NoArgs])
    \/ Bundles
    \/ LoopBody
    \/ FormatPatternReturn
    \/ PatternCall
    \/ PatternElement
    \/ TextElementCall
    \/ \E c \in CursorIds : CursorNext(c)

CacheSpec == Init /\ [][NextCache]_vars


(***************************************************************************)
(* The candidate bundles in fallback order, stated without the generator:  *)
(* for each locale index, one bundle per group the loader has for it.      *)
(***************************************************************************)
RECURSIVE CandidatesFrom(_)
CandidatesFrom(i) ==
    IF i > Len(locales) THEN << >>
    ELSE LET suffix == SubSeq(locales, i, Len(locales))
             groups == resources(resource_loader, locales[i])
         IN  [g \in 1 .. Len(groups) |-> FluentBundle(suffix, groups[g])]
             \o CandidatesFrom(i + 1)

Candidates == CandidatesFrom(1)

QualifyingCandidates ==
    LET \* The bundle has the message and the message has a value.
        HasValue(bundle, id) ==
            /\ \E k \in 1 .. Len(bundle.resources) :
                  id \in DOMAIN Resources[bundle.resources[k]].messages
            /\ \A k \in 1 .. Len(bundle.resources) :
                  id \in DOMAIN Resources[bundle.resources[k]].messages
                     => Resources[bundle.resources[k]].messages[id].value # NoPattern
    IN
        {k \in 1 .. Len(Candidates) : HasValue(Candidates[k], msg_id)}

\* The text with the isolation marks a placeable gets under use_isolating.
Isolated(text) == IF use_isolating THEN FSI \o text \o PDI ELSE text

CountErrors(kind) == Cardinality({i \in 1 .. Len(errors) : errors[i].kind = kind})

(***************************************************************************)
(* Claims                                                                  *)
(***************************************************************************)

\* C1: format_value never raises and never returns an empty string: every
\* call ends with a returned, non-empty string.
C1_NeverRaisesNeverEmpty ==
    pc = "done" => result.kind = "value" /\ result.val # ""

\* C2: format_value resolves the message against the first bundle, in
\* fallback order, that has the message with a value: while it resolves and
\* when it has returned, the bundle in use is that candidate; with locales
\* [fr, en], "hello" is the en text when only en has a resource and the fr
\* text when both have one, and a message that has no value for fr gets the
\* en value.
C2_FirstQualifyingBundle ==
    LET FirstQualifying == CHOOSE k \in QualifyingCandidates : \A j \in QualifyingCandidates : k <= j
    IN
        (pc \in {"resolve", "done"} /\ QualifyingCandidates # {}) =>
            /\ bundle_pointer + 1 = FirstQualifying
            /\ Context = Candidates[FirstQualifying]
            /\ (pc = "done" /\ locales = << "fr", "en" >>) =>
                  /\ (msg_id = "hello" /\ resource_loader = "enonly")
                        => result = Returned("Hello")
                  /\ (msg_id = "hello" /\ resource_loader = "full")
                        => result = Returned("Bonjour")
                  /\ (msg_id = "frnoval" /\ resource_loader = "full")
                        => result = Returned("English value")

\* C2 witness: with locales [fr, en] the fr bundle has the message without a
\* value, and the value of the en bundle, the second candidate, is returned.
C2_Witness ==
    /\ pc = "done"
    /\ locales = << "fr", "en" >>
    /\ resource_loader = "full"
    /\ msg_id = "frnoval"
    /\ bundle_pointer = 1
    /\ result = Returned("English value")

\* C3: when no candidate bundle has the message with a value, format_value
\* returns msg_id unchanged (also with no resource group at all, and with an
\* empty locale list).
C3_FallbackToMsgId ==
    (pc = "done" /\ QualifyingCandidates = {}) => result = Returned(msg_id)

\* C3 witness: every bundle was tried, none had the message, and the id came
\* back.
C3_Witness ==
    /\ pc = "done"
    /\ msg_id = "absent"
    /\ Len(Candidates) = 2
    /\ bundle_pointer = 2
    /\ result = Returned("absent")


\* C4: in every state of a resolution the number of pattern elements
\* resolved, part_count, is at most MAX_PARTS.
C4_PartCountWithinBudget == part_count <= MAX_PARTS

\* C5: when a pattern's element count exceeds MAX_PARTS - part_count as its
\* evaluation starts, the resolution aborts at once through the fatal
\* channel: a ValueError is raised, nothing is appended to the error list,
\* and the exception leaves every enclosing frame (pattern, reference, select
\* expression, function call) until format_value has raised it; no string is
\* returned.
C5_BudgetAbort ==
    [][ LET \* Pattern.__call__ is about to evaluate a pattern that is not already being
            \* resolved (the cycle guard has passed) and whose element count exceeds
            \* MAX_PARTS - part_count.
            BudgetExceeded ==
                /\ Calling("Pattern")
                /\ ctl.node.pid \notin active_patterns
                /\ Len(Elements(ctl.node.pid)) > MAX_PARTS - part_count
            \* The fatal error of the budget guard is propagating.
            Aborting == pc = "resolve" /\ ctl = Raise("ValueError")
        IN
        /\ BudgetExceeded => (Aborting' /\ errors' = errors /\ stack' = stack)
        /\ Aborting =>
              /\ errors' = errors
              /\ \/ Aborting' /\ Len(stack') = Len(stack) - 1
                 \/ pc' = "done" /\ result' = Raised("ValueError") /\ stack = << >>
      ]_vars

\* C5 witness: the budget guard fired in a pattern reached through a select
\* expression's variant and a message reference, and format_value raised.
C5_Witness ==
    /\ pc = "done"
    /\ msg_id = "selover"
    /\ result = Raised("ValueError")
    /\ errors = << >>
    /\ active_patterns = {"en/selover", "en/selover[other]"}

\* C6: a resolution in which a placeable resolved a text longer than
\* MAX_PART_LENGTH ends with the fatal resource error, whatever the
\* placeable's expression; it returns no string.
C6_OverlongPlaceableAborts ==
    (pc = "done" /\ longest_placeable > MAX_PART_LENGTH)
        => result = Raised("ValueError")


(***************************************************************************)
(* The references of a pattern that consists of text and of placeables     *)
(* holding a plain message or term reference, and the number of reference  *)
(* paths from it that lead back into a pattern being resolved.             *)
(***************************************************************************)
IsPlainReference(element) ==
    /\ element.type = "Placeable"
    /\ element.expression.type \in {"MessageReference", "TermReference"}
    /\ element.expression.attribute = NoAttribute
    /\ element.expression.type = "TermReference"
          => "absent" \in DOMAIN element.expression.arguments

ReferenceTarget(bundle, element) ==
    Lookup(bundle, element.expression.id,
           element.expression.type = "TermReference").value

References(pid) == {i \in 1 .. Len(Elements(pid)) : IsPlainReference(Elements(pid)[i])}

RECURSIVE OnlyReferences(_, _, _)
OnlyReferences(bundle, pid, seen) ==
    \/ pid \in seen
    \/ /\ \A i \in 1 .. Len(Elements(pid)) :
             \/ Elements(pid)[i].type = "TextElement"
             \/ /\ IsPlainReference(Elements(pid)[i])
                /\ Defines(bundle, Elements(pid)[i].expression.id,
                           Elements(pid)[i].expression.type = "TermReference")
                /\ ReferenceTarget(bundle, Elements(pid)[i]) # NoPattern
       /\ \A i \in References(pid) :
             OnlyReferences(bundle, ReferenceTarget(bundle, Elements(pid)[i]),
                            seen \cup {pid})

RECURSIVE BackReferences(_, _, _), BackReferencesOf(_, _, _, _)
BackReferences(bundle, pid, active) ==
    IF pid \in active THEN 1
    ELSE BackReferencesOf(bundle, pid, active \cup {pid}, References(pid))

BackReferencesOf(bundle, pid, active, todo) ==
    IF todo = {} THEN 0
    ELSE LET i == CHOOSE i \in todo : TRUE
         IN  BackReferences(bundle, ReferenceTarget(bundle, Elements(pid)[i]), active)
             + BackReferencesOf(bundle, pid, active, todo \ {i})

\* format_value has returned or raised from the resolution of a message.
Resolved == pc = "done" /\ bundle_pointer < Len(bundle_cache)

TopPattern == get_message(Context, msg_id).value

C8_NoVariantNeverRaises ==
    [][ LET NoVariantSelected ==
                /\ Returning("SelectExpression")
                /\ ~Top.body
                /\ \A i \in 1 .. Len(Top.node.variants) :
                      /\ ~match(ctl.val, VariantKey(Top.node.variants[i]), Context)
                      /\ ~Top.node.variants[i].default
        IN  NoVariantSelected => ctl'.op = "ret"
      ]_vars

\* The variant a select expression is to resolve for a key: the first one
\* whose key matches, else the default, else none (0).
ExpectedVariant(node, key, bundle) ==
    LET matching ==
            {i \in 1 .. Len(node.variants) :
                 match(key, VariantKey(node.variants[i]), bundle)}
        defaults == {i \in 1 .. Len(node.variants) : node.variants[i].default}
    IN  IF matching # {} THEN CHOOSE i \in matching : \A j \in matching : i <= j
        ELSE IF defaults # {} THEN CHOOSE i \in defaults : TRUE
        ELSE 0

\* C9: a select expression that has chosen a variant has chosen the first
\* one, in source order, whose key matches the selector, wherever the
\* default stands, and the default only when none matches; the pattern it
\* resolves is that variant's body and no other.
C9_FirstMatchElseDefault ==
    \A k \in 1 .. Len(stack) :
        (pc = "resolve" /\ stack[k].f = "SelectExpression" /\ stack[k].body) =>
            LET node == stack[k].node
                expected == ExpectedVariant(node, stack[k].key, Context)
            IN  /\ expected # 0
                /\ stack[k].found = expected
                /\ IF k < Len(stack)
                   THEN /\ stack[k + 1].f = "Pattern"
                        /\ stack[k + 1].pid = node.variants[expected].value
                   ELSE ctl.op = "call"
                           => ctl.node = Pattern(node.variants[expected].value)

\* C9 witness: the default variant stands first, the second variant matches
\* the selector, and the second variant's body is being resolved.
C9_Witness ==
    /\ pc = "resolve"
    /\ msg_id = "deffirst"
    /\ stack # << >>
    /\ Top.f = "Pattern"
    /\ Top.pid = "en/deffirst[one]"
    /\ \E k \in 1 .. Len(stack) :
          /\ stack[k].f = "SelectExpression"
          /\ stack[k].node.variants[1].default
          /\ stack[k].found = 2

\* C10: for a number on one side and a string on the other, a variant
\* matches exactly when the bundle's plural category of the number is the
\* string; so selector 1 against [one] *[other] gives [one] under the
\* categories (one, other) of en, and the default [other] under tr, whose
\* only category is other.
C10_PluralCategoryMatch ==
    /\ (Returning("SelectExpression") /\ ~Top.body) =>
          \A i \in 1 .. Len(Top.node.variants) :
              LET key == ctl.val
                  vkey == VariantKey(Top.node.variants[i])
              IN  /\ (is_number(key) /\ IsStr(vkey)) =>
                        (match(key, vkey, Context)
                            <=> plural_form(Context, key.n) = vkey.s)
                  /\ (IsStr(key) /\ is_number(vkey)) =>
                        (match(key, vkey, Context)
                            <=> plural_form(Context, vkey.n) = key.s)
    /\ (Resolved /\ msg_id = "plural" /\ args = ("num" :> FluentInt(1))) =>
          /\ Context.locales[1] = "en" => result = Returned(Isolated("One"))
          /\ Context.locales[1] = "tr" => result = Returned(Isolated("Other"))

\* C10 witness: selector 1 under tr, where the category of 1 is other: the
\* default variant's text was returned.
C10_Witness ==
    /\ Resolved
    /\ msg_id = "plural"
    /\ args = ("num" :> FluentInt(1))
    /\ Context.locales[1] = "tr"
    /\ result = Returned("Other")


\* C11: match gives FALSE whenever either value is None-tagged; and a select
\* expression with a default variant whose selector gave a None-tagged value
\* (a missing variable, an unknown reference, a failed function call)
\* resolves its default variant's body.
C11_NoneNeverMatches ==
    LET \* A value is None-tagged: Python's None or a FluentNone.
        NoneTagged(val) == val.t \in {"None", "none"}
        \* Values a selector or a variant key can be, given to match directly.
        MatchValues ==
            {PyNone, FluentNone(""), FluentNone("num"), FluentNone("one"), Str("num"),
             Str("one"), Str("other"), Str(""), FluentInt(1), FluentInt(5)}
    IN
        /\ bundle_cache # << >> =>
              \A v \in MatchValues : \A w \in MatchValues :
                  (NoneTagged(v) \/ NoneTagged(w)) => ~match(v, w, bundle_cache[1])
        /\ \A k \in 1 .. Len(stack) :
              (/\ pc = "resolve"
               /\ stack[k].f = "SelectExpression"
               /\ stack[k].body
               /\ NoneTagged(stack[k].key)) =>
                  /\ stack[k].node.variants[stack[k].found].default
                  /\ k < Len(stack) =>
                        stack[k + 1].pid = stack[k].node.variants[stack[k].found].value
        /\ (Resolved /\ msg_id \in {"selref", "selfn"}) => result = Returned(Isolated("Default"))
        /\ (Resolved /\ msg_id = "selnone" /\ args \in {NoArgs, "num" :> NativeObject})
              => result = Returned(Isolated("Other"))

\* C11 witness: the selector was a missing variable named like the first
\* variant's key, and the default variant's text was returned.
C11_Witness ==
    /\ Resolved
    /\ msg_id = "selnone"
    /\ args = NoArgs
    /\ CountErrors("ReferenceError") = 1
    /\ result = Returned(Isolated("Other"))


\* C12: a message or term reference to an identifier missing from the
\* bundle's table, or to an attribute missing from the entry, fails with a
\* lookup error that the reference itself takes: one unknown-reference error
\* is appended, the placeholder {id} is its value, and the enclosing pattern
\* goes on (the texts around the placeholder are in the result).
C12_UnknownReferencePlaceholder ==
    [][ LET \* The reference names an entry the bundle's table does not have, or an
            \* attribute the entry does not have.
            UnknownEntry(node) ==
                LET term == node.type = "TermReference"
                IN  \/ ~Defines(Context, node.id, term)
                    \/ /\ node.attribute # NoAttribute
                       /\ node.attribute \notin DOMAIN Lookup(Context, node.id, term).attributes
            \* The text that names a reference in its error and its placeholder.
            ReferenceName(node) ==
                IF node.attribute = NoAttribute
                THEN (IF node.type = "TermReference" THEN "-" \o node.id ELSE node.id)
                ELSE (IF node.type = "TermReference" THEN "-" \o node.id ELSE node.id)
                     \o "." \o node.attribute
        IN
        /\ ((Calling("MessageReference") \/ Calling("TermReference"))
              /\ UnknownEntry(ctl.node)) =>
                 /\ ctl' = Raise("LookupError")
                 /\ Top' = [f |-> "EntryReference", node |-> ctl.node]
        /\ (pc = "resolve" /\ ctl = Raise("LookupError") /\ stack # << >>
              /\ Top.f = "EntryReference") =>
                 /\ errors' = Append(errors, Error("UnknownReference",
                                                   ReferenceName(Top.node)))
                 /\ ctl' = Ret(FluentNone("{" \o ReferenceName(Top.node) \o "}"))
                 /\ stack' = Pop
        /\ (Resolved' /\ msg_id = "badref") =>
                 /\ result' = Returned("a " \o Isolated("{missing}") \o " b")
                 /\ errors' = << Error("UnknownReference", "missing") >>
        /\ (Resolved' /\ msg_id = "badterm") =>
                 /\ result' = Returned("a " \o Isolated("{-missing}") \o " b")
                 /\ errors' = << Error("UnknownReference", "-missing") >>
        /\ (Resolved' /\ msg_id = "badattr") =>
                 /\ result' = Returned(Isolated("{hello.nope}"))
                 /\ errors' = << Error("UnknownReference", "hello.nope") >>
      ]_vars

\* C12 witness: a reference to a term the bundle does not have stood
\* between two texts; the result holds both texts around the placeholder.
C12_Witness ==
    /\ Resolved
    /\ msg_id = "badterm"
    /\ result = Returned("a {-missing} b")
    /\ errors = << Error("UnknownReference", "-missing") >>


\* The term references whose body is being resolved: the frames of their
\* with blocks that still have the reference's frame above them.
TermFrames ==
    {k \in 1 .. Len(stack) - 1 :
        stack[k].f = "modified" /\ stack[k + 1].f = "EntryReference"}

InTermBody == pc = "resolve" /\ TermFrames # {}

\* C13: while a term reference's body is being resolved the current scope
\* is exactly the named arguments of its call site (empty without any), so
\* no variable of the caller is visible, and a variable missing from it gives
\* the None-tagged fallback and no error; positional arguments given to a
\* term append one FormatError and are not in the scope.
C13_TermScope ==
    [][ LET \* The call site of the innermost term reference being resolved.
            InnermostTermReference ==
                stack[(CHOOSE k \in TermFrames : \A j \in TermFrames : j <= k) + 1].node
            \* The named arguments written at a term reference, by name.
            NamedAtCallSite(node) ==
                IF "absent" \in DOMAIN node.arguments THEN NoArgs
                ELSE [name \in {node.arguments.named[k].name :
                                    k \in 1 .. Len(node.arguments.named)} |->
                        LET k == CHOOSE k \in 1 .. Len(node.arguments.named) :
                                     node.arguments.named[k].name = name
                            v == node.arguments.named[k].value
                        IN  IF v.type = "StringLiteral" THEN Str(v.value) ELSE FluentInt(v.value)]
        IN
        /\ InTermBody =>
              /\ current.args = NamedAtCallSite(InnermostTermReference)
              /\ ~current.error_for_missing_arg
              /\ msg_id = "brandcall" => current.args = ("case" :> Str("x"))
              /\ msg_id = "barecall" => current.args = NoArgs
        /\ (InTermBody /\ Calling("VariableReference")
              /\ ctl.node.id \notin DOMAIN NamedAtCallSite(InnermostTermReference)) =>
                 /\ errors' = errors
                 /\ ctl' = Ret(FluentNone(ctl.node.id))
        /\ Calling("TermReference") =>
              IF "absent" \notin DOMAIN ctl.node.arguments
                 /\ ctl.node.arguments.positional # << >>
              THEN /\ Len(errors') = Len(errors) + 1
                   /\ SubSeq(errors', 1, Len(errors)) = errors
                   /\ errors'[Len(errors')].kind = "FormatError"
              ELSE errors' = errors
        /\ (Resolved' /\ msg_id = "brandcall" /\ args = ("num" :> FluentInt(1))) =>
              /\ result' = Returned(Isolated("B" \o Isolated("x") \o Isolated("num"))
                                    \o "/" \o Isolated("1"))
              /\ Len(errors') = 1
        /\ (Resolved' /\ msg_id = "barecall" /\ args = ("num" :> FluentInt(1))) =>
              /\ result' = Returned(Isolated("B" \o Isolated("case") \o Isolated("num"))
                                    \o "/" \o Isolated("1"))
              /\ errors' = << >>
      ]_vars

\* C13 witness: inside the body of a term called with a positional and a
\* named argument, the variable the caller has but the call site did not
\* name is being looked up; only the FormatError has been collected.
C13_Witness ==
    /\ InTermBody
    /\ msg_id = "brandcall"
    /\ args = ("num" :> FluentInt(1))
    /\ Calling("VariableReference")
    /\ ctl.node.id = "num"
    /\ current.args = ("case" :> Str("x"))
    /\ CountErrors("FormatError") = 1
    /\ Len(errors) = 1


\* C14: a variable reference to a name absent from the current scope
\* returns the None-tagged value carrying the name and appends a
\* ReferenceError exactly when the scope's error_for_missing_arg is set; an
\* argument that is present but neither a str nor a Fluent value appends one
\* TypeError and returns the same fallback; the pattern goes on.
C14_VariableFallback ==
    [][ /\ Calling("VariableReference") =>
              LET name == ctl.node.id
              IN  /\ stack' = stack
                  /\ name \notin DOMAIN current.args =>
                        /\ ctl' = Ret(FluentNone(name))
                        /\ IF current.error_for_missing_arg
                           THEN /\ Len(errors') = Len(errors) + 1
                                /\ SubSeq(errors', 1, Len(errors)) = errors
                                /\ errors'[Len(errors')].kind = "ReferenceError"
                           ELSE errors' = errors
                  /\ (name \in DOMAIN current.args
                        /\ current.args[name].t \notin {"str", "num", "none"}) =>
                        /\ ctl' = Ret(FluentNone(name))
                        /\ Len(errors') = Len(errors) + 1
                        /\ SubSeq(errors', 1, Len(errors)) = errors
                        /\ errors'[Len(errors')].kind = "TypeError"
                  /\ (name \in DOMAIN current.args
                        /\ current.args[name].t \in {"str", "num", "none"}) =>
                        /\ ctl' = Ret(current.args[name])
                        /\ errors' = errors
        /\ (Resolved' /\ msg_id = "var" /\ args = NoArgs) =>
              /\ result' = Returned("n=" \o Isolated("num"))
              /\ Len(errors') = 1 /\ errors'[1].kind = "ReferenceError"
        /\ (Resolved' /\ msg_id = "var" /\ args = ("num" :> NativeObject)) =>
              /\ result' = Returned("n=" \o Isolated("num"))
              /\ Len(errors') = 1 /\ errors'[1].kind = "TypeError"
        /\ (Resolved' /\ msg_id = "var" /\ args = ("num" :> Str("a"))) =>
              /\ result' = Returned("n=" \o Isolated("a"))
              /\ errors' = << >>
      ]_vars

\* C14 witness: the argument was an object of an unsupported type; the
\* text before the placeable and the fallback name were returned, with one
\* TypeError.
C14_Witness ==
    /\ Resolved
    /\ msg_id = "var"
    /\ args = ("num" :> NativeObject)
    /\ result = Returned("n=" \o Isolated("num"))
    /\ CountErrors("TypeError") = 1


\* C15: a function reference does not abort the resolution: an unknown
\* function name appends one ReferenceError, a function that raises appends
\* the error it raised, both return the None-tagged fallback name(), and the
\* enclosing pattern resolves its remaining elements.
C15_FunctionFailureIsCollected ==
    [][ LET \* FunctionReference.__call__ has evaluated its arguments and is about to
            \* look the function up: the node, and the positional arguments' values.
            FunctionLookup ==
                \/ Calling("FunctionReference") /\ ctl.node.arguments.positional = << >>
                \/ /\ Returning("FunctionReference")
                   /\ Top.i = Len(Top.node.arguments.positional)
            LookupNode == IF ctl.op = "call" THEN ctl.node ELSE Top.node
            LookupArguments == IF ctl.op = "call" THEN << >> ELSE Append(Top.args, ctl.val)
        IN
        /\ (FunctionLookup /\ LookupNode.id \notin Functions) =>
              /\ ctl' = Ret(FluentNone(LookupNode.id \o "()"))
              /\ Len(errors') = Len(errors) + 1
              /\ SubSeq(errors', 1, Len(errors)) = errors
              /\ errors'[Len(errors')].kind = "ReferenceError"
        /\ (FunctionLookup /\ LookupNode.id \in Functions
              /\ Invoke(LookupNode.id, LookupArguments).exc # "") =>
              /\ ctl' = Ret(FluentNone(LookupNode.id \o "()"))
              /\ Len(errors') = Len(errors) + 1
              /\ SubSeq(errors', 1, Len(errors)) = errors
              /\ errors'[Len(errors')].kind = Invoke(LookupNode.id, LookupArguments).exc
        /\ (FunctionLookup /\ LookupNode.id \in Functions
              /\ Invoke(LookupNode.id, LookupArguments).exc = "") =>
              /\ ctl' = Ret(Invoke(LookupNode.id, LookupArguments).val)
              /\ errors' = errors
        /\ (Resolved' /\ msg_id = "fnunknown") =>
              /\ result' = Returned(Isolated("NOPE()") \o "!")
              /\ Len(errors') = 1 /\ errors'[1].kind = "ReferenceError"
        /\ (Resolved' /\ msg_id = "fnboom") =>
              /\ result' = Returned(Isolated("BOOM()") \o "!")
              /\ Len(errors') = 1 /\ errors'[1].kind = "TypeError"
      ]_vars

\* C15 witness: the function raised, its fallback text and the text after
\* it were returned, and the raised error was collected.
C15_Witness ==
    /\ Resolved
    /\ msg_id = "fnboom"
    /\ result = Returned(Isolated("BOOM()") \o "!")
    /\ errors = << Error("TypeError", "BOOM") >>


RECURSIVE ExpressionPatterns(_, _)
ExpressionPatterns(bundle, e) ==
    IF e.type \in {"Placeable", "NeverIsolatingPlaceable"}
    THEN ExpressionPatterns(bundle, e.expression)
    ELSE IF e.type \in {"MessageReference", "TermReference"}
    THEN LET term == e.type = "TermReference"
         IN  IF ~Defines(bundle, e.id, term) THEN {}
             ELSE LET entry == Lookup(bundle, e.id, term)
                  IN  IF e.attribute # NoAttribute
                      THEN (IF e.attribute \in DOMAIN entry.attributes
                            THEN {entry.attributes[e.attribute]} ELSE {})
                      ELSE (IF entry.value = NoPattern THEN {} ELSE {entry.value})
    ELSE IF e.type = "SelectExpression"
    THEN ExpressionPatterns(bundle, e.selector)
         \cup {e.variants[i].value : i \in 1 .. Len(e.variants)}
    ELSE IF e.type = "FunctionReference"
    THEN UNION {ExpressionPatterns(bundle, e.arguments.positional[i]) :
                    i \in 1 .. Len(e.arguments.positional)}
    ELSE {}

PatternCalls(bundle, pid) ==
    UNION {ExpressionPatterns(bundle, Elements(pid)[i]) : i \in 1 .. Len(Elements(pid))}

RECURSIVE ReachablePatterns(_, _)
ReachablePatterns(bundle, pids) ==
    LET more == pids \cup UNION {PatternCalls(bundle, p) : p \in pids}
    IN  IF more = pids THEN pids ELSE ReachablePatterns(bundle, more)

\* C17: the resolution of a message whose tree has no self-reference ends
\* with a returned string and no fatal error.
C17_AcyclicReturnsString ==
    LET \* Some pattern reachable from pid can reach itself.
        SelfReferencing(bundle, pid) ==
            \E p \in ReachablePatterns(bundle, {pid}) :
                p \in ReachablePatterns(bundle, PatternCalls(bundle, p))
    IN
        (Resolved /\ ~SelfReferencing(Context, TopPattern)) => result.kind = "value"


\* The position of the _iterate_bundles generator after k bundles.
RECURSIVE IteratorAfter(_)
IteratorAfter(k) ==
    IF k = 0 THEN IterStart
    ELSE IterNext(IteratorAfter(k - 1), locales, resource_loader).it

IsCandidatePrefix(bundles) ==
    /\ Len(bundles) <= Len(Candidates)
    /\ bundles = SubSeq(Candidates, 1, Len(bundles))

\* C18: over format_value calls and interleaved _bundles() generators the
\* cache changes only by one bundle appended; it is a prefix of the
\* candidates in production order and the iterator has produced exactly the
\* cached bundles (each built once); every generator has yielded the
\* candidates from the first on, and all of them when it has returned.
C18_CacheAppendOnly ==
    /\ [](/\ IsCandidatePrefix(bundle_cache)
          /\ bundle_it = IteratorAfter(Len(bundle_cache))
          /\ \A i \in 1 .. Len(bundle_cache) : \A j \in 1 .. Len(bundle_cache) :
                bundle_cache[i] = bundle_cache[j] => i = j
          /\ \A c \in CursorIds :
                /\ IsCandidatePrefix(cursors[c].yielded)
                /\ Len(cursors[c].yielded) <= Len(bundle_cache)
                /\ cursors[c].finished => cursors[c].yielded = Candidates
          /\ pc \in {"body", "resolve"} =>
                /\ bundle_pointer < Len(bundle_cache)
                /\ Context = Candidates[bundle_pointer + 1]
          /\ (pc = "done" /\ bundle_pointer >= Len(bundle_cache)) =>
                bundle_pointer = Len(Candidates))
    /\ [][bundle_cache' # bundle_cache =>
            /\ Len(bundle_cache') = Len(bundle_cache) + 1
            /\ SubSeq(bundle_cache', 1, Len(bundle_cache)) = bundle_cache]_vars

\* C18 witness: one generator has returned after yielding both candidates,
\* another has yielded only the first, and a second format_value call has
\* ended, with the cache holding the two bundles.
C18_Witness ==
    /\ Len(Candidates) = 2
    /\ bundle_cache = Candidates
    /\ cursors[1].finished
    /\ cursors[1].yielded = Candidates
    /\ ~cursors[2].finished
    /\ Len(cursors[2].yielded) = 1
    /\ calls = 2
    /\ pc = "done"


\* The places of the candidates: locale index and index of the group among
\* those the loader yields for that locale, ranked by locale first.
Slots ==
    UNION {{<<i, g>> : g \in 1 .. Len(Loaders[resource_loader][locales[i]])} :
              i \in 1 .. Len(locales)}

ExpectedCandidates ==
    LET Rank(slot) ==
            1 + Cardinality({t \in Slots :
                                t[1] < slot[1] \/ (t[1] = slot[1] /\ t[2] < slot[2])})
    IN
        [k \in 1 .. Cardinality(Slots) |->
            LET slot == CHOOSE t \in Slots : Rank(t) = k
            IN  [locales |-> SubSeq(locales, slot[1], Len(locales)),
                 resources |-> Loaders[resource_loader][locales[slot[1]]][slot[2]]]]

\* The _iterate_bundles generator has no further bundle.
Exhausted == IterNext(bundle_it, locales, resource_loader).stop

\* C19: the bundles are produced by ascending locale index and, within a
\* locale, in the order the loader yields its groups; each is built for the
\* locales from that index on and holds that group's resources in order; a
\* locale without a group gives no bundle.
C19_ProductionOrder ==
    /\ Len(bundle_cache) <= Len(ExpectedCandidates)
    /\ \A k \in 1 .. Len(bundle_cache) : bundle_cache[k] = ExpectedCandidates[k]
    /\ Exhausted => Len(bundle_cache) = Len(ExpectedCandidates)
    /\ (Exhausted /\ locales = << "fr", "en" >> /\ resource_loader = "enonly") =>
          bundle_cache = << [locales |-> << "en" >>,
                             resources |-> << "en_main", "en_heavy" >>] >>
    /\ (Exhausted /\ locales = << "fr", "en" >> /\ resource_loader = "full") =>
          bundle_cache = << [locales |-> << "fr", "en" >>, resources |-> << "fr_main" >>],
                            [locales |-> << "en" >>, resources |-> << "en_main" >>] >>
    /\ (Exhausted /\ resource_loader = "roots") =>
          bundle_cache = << [locales |-> << "en" >>, resources |-> << "en_heavy" >>],
                            [locales |-> << "en" >>, resources |-> << "en_main" >>] >>
    /\ resource_loader = "none" => bundle_cache = << >>

\* C19 witness: the loader has nothing for fr and one group of two
\* resources for en; the generator is exhausted after the one bundle.
C19_Witness ==
    /\ locales = << "fr", "en" >>
    /\ resource_loader = "enonly"
    /\ Exhausted
    /\ pc = "done"
    /\ msg_id = "absent"
    /\ bundle_cache = << [locales |-> << "en" >>,
                         resources |-> << "en_main", "en_heavy" >>] >>


(***************************************************************************)
(* FluentResourceLoader (fallback.py).  A path is the sequence of its      *)
(* segments; a root holds the segment "{locale}".  `files` is what the     *)
(* file system holds, `redis` the keys the Redis store holds.  A file's    *)
(* content is a function of its name; Redis hands back bytes, open() a     *)
(* str.                                                                    *)
(***************************************************************************)
FileContent(file_name) == IF file_name = "empty.ftl" THEN "" ELSE "# " \o file_name

\* path.format(locale=locale)
localize_path(path, locale) ==
    [k \in 1 .. Len(path) |-> IF path[k] = "{locale}" THEN locale ELSE path[k]]

\* TRANSLATION_REDIS_KEY.format(di_lang=..., file_name=...)
RedisKey(di_lang, file_name) == << di_lang, file_name >>

\* open(f'{TRANSLATION_STATIC_FILES_PATH}/{DI_LANG}/{file_name}').read():
\* FileNotFoundError when the file is not there.
get_translation_file_from_cloud(ld, file_name) ==
    LET path == << ld.TRANSLATION_STATIC_FILES_PATH, ld.DI_LANG, file_name >>
    IN  IF path \in ld.files
        THEN [exc |-> "", data |-> Str(FileContent(file_name))]
        ELSE [exc |-> "FileNotFoundError", data |-> Str("")]

\* get_translation_file: the Redis entry if there is one, else the file of
\* the static path, stored in Redis when it is not empty.  The locale asked
\* for plays no part: the key and the path are built from DI_LANG.
get_translation_file(ld, file_name) ==
    LET \* What redis_client.get returns for a key it holds.
        Bytes(s) == [t |-> "bytes", s |-> s]
        \* data.decode() if isinstance(data, bytes) else data
        Decoded(data) == IF data.t = "bytes" THEN Str(data.s) ELSE data
    IN
        LET file_key == RedisKey(ld.DI_LANG, file_name)
            cloud    == get_translation_file_from_cloud(ld, file_name)
        IN  IF ld.in_memory
            THEN IF file_key \in ld.redis
                 THEN [exc |-> "", data |-> Decoded(Bytes(FileContent(file_name))),
                       redis |-> ld.redis]
                 ELSE IF cloud.exc # ""
                 THEN [exc |-> cloud.exc, data |-> cloud.data, redis |-> ld.redis]
                 ELSE [exc |-> "", data |-> Decoded(cloud.data),
                       redis |-> IF cloud.data.s # ""
                                 THEN ld.redis \cup {file_key} ELSE ld.redis]
            ELSE [exc |-> cloud.exc, data |-> Decoded(cloud.data), redis |-> ld.redis]

\* self.Resource(content)
Resource(content) == [source |-> content.s]

\* The loaders of the model, with the fields load_env_vars assigns: an
\* on-disk one over two roots, an in-memory one whose Redis store holds
\* only files that are in the static path and not empty.
LoaderStates ==
    LET roots == << << "a", "{locale}" >>, << "b", "{locale}" >> >>
        DiskFiles ==
            { << r, "en", f >> : r \in {"a", "b"}, f \in {"main.ftl", "extra.ftl"} }
        CloudFiles ==
            { << "static", "en", f >> : f \in {"main.ftl", "extra.ftl", "empty.ftl"} }
    IN  { [in_memory |-> FALSE, roots |-> roots, DI_LANG |-> "en",
           TRANSLATION_STATIC_FILES_PATH |-> "static", files |-> fs, redis |-> {}]
              : fs \in SUBSET DiskFiles }
        \cup
        { [in_memory |-> TRUE, roots |-> roots, DI_LANG |-> "en",
           TRANSLATION_STATIC_FILES_PATH |-> "static", files |-> fs, redis |-> rs]
              : fs \in SUBSET CloudFiles,
                rs \in SUBSET { RedisKey("en", "main.ftl") } }

LoaderInit ==
    /\ InstanceInit([locales |-> << >>, loader |-> "none", use_isolating |-> FALSE])
    /\ fluent_loader \in LoaderStates
    /\ gen = NoGenerator
    /\ migration = NoMigration

instance_vars ==
    <<config_vars, cursors, call_vars, env_vars, cache_vars, bundle_pointer, pc, ctl,
      stack, result, migration>>

\* resources(locale, resource_ids) is called and its generator is started.
ResourcesCall(locale, resource_ids) ==
    /\ gen.state = "none"
    /\ gen' = [NoGenerator EXCEPT !.state = "running", !.locale = locale,
                                  !.resource_ids = resource_ids, !.root = 1, !.i = 1]
    /\ UNCHANGED <<instance_vars, fluent_loader>>

\* In-memory mode, one turn of the loop over resource_ids: an exception of
\* get_translation_file leaves the generator.
InMemoryResource ==
    /\ gen.state = "running"
    /\ fluent_loader.in_memory
    /\ gen.i <= Len(gen.resource_ids)
    /\ LET got == get_translation_file(fluent_loader, gen.resource_ids[gen.i])
       IN  /\ fluent_loader' = [fluent_loader EXCEPT !.redis = got.redis]
           /\ gen' = IF got.exc # ""
                     THEN [gen EXCEPT !.state = "raised", !.exc = got.exc]
                     ELSE [gen EXCEPT !.i = @ + 1,
                                      !.resources = Append(@, Resource(got.data))]
    /\ UNCHANGED instance_vars

\* In-memory mode, after the loop: the list is yielded if it is not empty.
InMemoryEnd ==
    /\ gen.state = "running"
    /\ fluent_loader.in_memory
    /\ gen.i > Len(gen.resource_ids)
    /\ gen' = IF gen.resources # << >>
              THEN [gen EXCEPT !.state = "suspended",
                               !.yielded = Append(@, gen.resources)]
              ELSE [gen EXCEPT !.state = "returned"]
    /\ UNCHANGED <<instance_vars, fluent_loader>>

\* On-disk mode, one turn of the inner loop: a path that is not a file is
\* skipped.
DiskResource ==
    /\ gen.state = "running"
    /\ ~fluent_loader.in_memory
    /\ gen.root <= Len(fluent_loader.roots)
    /\ gen.i <= Len(gen.resource_ids)
    /\ LET resource_id == gen.resource_ids[gen.i]
           path == localize_path(Append(fluent_loader.roots[gen.root], resource_id),
                                 gen.locale)
       IN  gen' = IF path \notin fluent_loader.files
                  THEN [gen EXCEPT !.i = @ + 1]
                  ELSE [gen EXCEPT !.i = @ + 1,
                                   !.resources =
                                       Append(@, Resource(Str(FileContent(resource_id))))]
    /\ UNCHANGED <<instance_vars, fluent_loader>>

\* On-disk mode, the end of one root: the list is yielded if it is not
\* empty, else the next root is taken.
DiskRootEnd ==
    /\ gen.state = "running"
    /\ ~fluent_loader.in_memory
    /\ gen.root <= Len(fluent_loader.roots)
    /\ gen.i > Len(gen.resource_ids)
    /\ gen' = IF gen.resources # << >>
              THEN [gen EXCEPT !.state = "suspended",
                               !.yielded = Append(@, gen.resources)]
              ELSE [gen EXCEPT !.root = @ + 1, !.i = 1, !.resources = << >>]
    /\ UNCHANGED <<instance_vars, fluent_loader>>

\* On-disk mode, no root is left: the generator returns.
DiskReturn ==
    /\ gen.state = "running"
    /\ ~fluent_loader.in_memory
    /\ gen.root > Len(fluent_loader.roots)
    /\ gen' = [gen EXCEPT !.state = "returned"]
    /\ UNCHANGED <<instance_vars, fluent_loader>>

\* The caller asks for the next list after a yield.
ResourcesResume ==
    /\ gen.state = "suspended"
    /\ gen' = IF fluent_loader.in_memory
              THEN [gen EXCEPT !.state = "returned"]
              ELSE [gen EXCEPT !.state = "running", !.root = @ + 1, !.i = 1,
                               !.resources = << >>]
    /\ UNCHANGED <<instance_vars, fluent_loader>>

NextLoader ==
    \/ \E locale \in {"en", "fr"},
          resource_ids \in { << "main.ftl" >>, << "main.ftl", "extra.ftl" >>,
                             << "empty.ftl", "main.ftl" >> } :
           ResourcesCall(locale, resource_ids)
    \/ InMemoryResource
    \/ InMemoryEnd
    \/ DiskResource
    \/ DiskRootEnd
    \/ DiskReturn
    \/ ResourcesResume

LoaderSpec == LoaderInit /\ [][NextLoader]_vars

C22_ActiveWhileInProgress ==
    /\ pc = "resolve" =>
          active_patterns =
              {stack[k].pid : k \in {j \in 1 .. Len(stack) : stack[j].f = "Pattern"}}
    /\ Resolved => active_patterns = {}

\* C23: the current scope is the scope of the innermost term reference being
\* resolved; with no term reference in progress, and after the resolution
\* has ended by a return or by a fatal error, it is the scope format_pattern
\* started with.
C23_ScopeRestored ==
    /\ (pc = "resolve" /\ \A k \in 1 .. Len(stack) : stack[k].f # "modified") =>
          current = CurrentEnvironment(args, TRUE)
    /\ \A k \in 1 .. Len(stack) :
          (/\ pc = "resolve"
           /\ stack[k].f = "modified"
           /\ \A j \in 1 .. k - 1 : stack[j].f # "modified") =>
              stack[k].old_current = CurrentEnvironment(args, TRUE)
    /\ Resolved => current = CurrentEnvironment(args, TRUE)


\* C25: a format_value call that returned a value from the k-th candidate
\* has built no candidate after the k-th: the cache length is the larger of
\* its length as the call began and k; the iterator was not advanced at all
\* when the cache already held k candidates, and otherwise stands at the
\* k-th candidate's locale.
C25_NoCandidateBeyondTheUsedOne ==
    (Resolved /\ result.kind = "value") =>
        LET k == bundle_pointer + 1
        IN  /\ Len(bundle_cache) = Max(cache_before.len, k)
            /\ cache_before.len >= k => bundle_it = cache_before.it
            /\ cache_before.len < k =>
                  /\ bundle_it = IteratorAfter(k)
                  /\ bundle_cache[k].locales =
                        SubSeq(locales, bundle_it.first_loc + 1, Len(locales))

\* C25 witness: the second locale's bundle gave the value while the cache
\* was empty as the call began; and a call that found the cache already
\* longer than the candidate it used.
C25_Witness ==
    /\ Resolved /\ result.kind = "value"
    /\ bundle_pointer + 1 = 2
    /\ cache_before.len = 0
    /\ Len(bundle_cache) = 2


(***************************************************************************)
(* Two lookups on one instance without synchronisation: each _bundles()    *)
(* generator takes the statements of its loop one at a time.  `at` is the  *)
(* statement a generator is at: "check" (line 50), "next" (about to call   *)
(* next(self._bundle_it)), "running" (inside _iterate_bundles), "append"   *)
(* (next returned `pulled`, the append is still to come), "yield" (line    *)
(* 55).  `raced` records that a generator found the cache short while      *)
(* another one stood between its own check and its append.                 *)
(***************************************************************************)
\* self._bundle_cache.append(bundle)
append_front(cache, bundle) == << bundle >> \o cache

append(cache, bundle) == Append(cache, bundle)

cursor_frame ==
    <<config_vars, call_vars, env_vars, bundle_pointer, pc, ctl, stack, result,
      fluent_loader, gen, migration>>

\* if bundle_pointer == len(self._bundle_cache):
CursorCheck(c) ==
    /\ cursors[c].at = "check"
    /\ ~cursors[c].finished
    /\ cursors' =
          LET InWindow(d) == cursors[d].at \in {"next", "running", "append"}
          IN  IF CacheMiss(cursors[c].pointer, bundle_cache)
              THEN [cursors EXCEPT
                       ![c].at = "next",
                       ![c].raced = @ \/ \E d \in CursorIds \ {c} : InWindow(d)]
              ELSE [cursors EXCEPT ![c].at = "yield"]
    /\ UNCHANGED <<cursor_frame, cache_vars>>

\* next(self._bundle_it) is called: a generator that is already executing
\* raises ValueError, which leaves _bundles.
CursorEnter(c) ==
    /\ cursors[c].at = "next"
    /\ cursors' =
          IF \E d \in CursorIds \ {c} : cursors[d].at = "running"
          THEN [cursors EXCEPT ![c].at = "raised", ![c].finished = TRUE]
          ELSE [cursors EXCEPT ![c].at = "running"]
    /\ UNCHANGED <<cursor_frame, cache_vars>>

\* _iterate_bundles runs to its next yield, or ends: StopIteration makes
\* _bundles return.
CursorLeave(c) ==
    /\ cursors[c].at = "running"
    /\ LET n == IterNext(bundle_it, locales, resource_loader)
       IN  IF n.stop
           THEN /\ cursors' = [cursors EXCEPT ![c].at = "returned",
                                              ![c].finished = TRUE]
                /\ UNCHANGED bundle_it
           ELSE /\ cursors' = [cursors EXCEPT ![c].at = "append",
                                              ![c].pulled = << n.bundle >>]
                /\ bundle_it' = n.it
    /\ UNCHANGED <<cursor_frame, bundle_cache>>

\* The value next() returned is appended to the shared cache.
CursorAppend(c) ==
    /\ cursors[c].at = "append"
    /\ bundle_cache' = append(bundle_cache, cursors[c].pulled[1])
    /\ cursors' = [cursors EXCEPT ![c].at = "yield", ![c].pulled = << >>]
    /\ UNCHANGED <<cursor_frame, bundle_it>>

\* yield self._bundle_cache[bundle_pointer]; bundle_pointer += 1
CursorYield(c) ==
    /\ cursors[c].at = "yield"
    /\ cursors' = [cursors EXCEPT
                      ![c].yielded = Append(@, bundle_cache[cursors[c].pointer + 1]),
                      ![c].pointer = @ + 1,
                      ![c].at = "check"]
    /\ UNCHANGED <<cursor_frame, cache_vars>>

NextRace ==
    \/ \E c \in CursorIds : CursorCheck(c)
    \/ \E c \in CursorIds : CursorEnter(c)
    \/ \E c \in CursorIds : CursorLeave(c)
    \/ \E c \in CursorIds : CursorAppend(c)
    \/ \E c \in CursorIds : CursorYield(c)

RaceSpec == Init /\ [][NextRace]_vars

\* C24: the extend-on-demand step of the bundle cache is not atomic.  The
\* cache holds every candidate the iterator has produced and handed over,
\* each once; it is out of production order, or a generator has yielded a
\* lower-priority bundle before a higher-priority one, only after a
\* generator found the cache short while another stood between its own
\* check and its append.
C24_DisorderOnlyByOverlap ==
    LET pending == {c \in CursorIds : cursors[c].at = "append"}
        handed  == {bundle_cache[k] : k \in 1 .. Len(bundle_cache)}
                   \cup {cursors[c].pulled[1] : c \in pending}
        n       == Len(bundle_cache) + Cardinality(pending)
        ordered(bundles) ==
            \A i \in 1 .. Len(bundles) : \A j \in 1 .. Len(bundles) :
                i < j => \E a \in 1 .. Len(Candidates) : \E b \in 1 .. Len(Candidates) :
                            a < b /\ bundles[i] = Candidates[a]
                                  /\ bundles[j] = Candidates[b]
    IN  /\ n <= Len(Candidates)
        /\ bundle_it = IteratorAfter(n)
        /\ handed = {Candidates[k] : k \in 1 .. n}
        /\ (\/ ~ordered(bundle_cache)
            \/ \E c \in CursorIds : ~ordered(cursors[c].yielded))
              => \E c \in CursorIds : cursors[c].raced

\* C24 witness: two generators passed the check on an empty cache, the
\* second candidate was appended before the first, and a generator yielded
\* the second candidate first.
C24_Witness ==
    /\ Len(Candidates) = 2
    /\ bundle_cache = << Candidates[2], Candidates[1] >>
    /\ \E c \in CursorIds : cursors[c].yielded = << Candidates[2], Candidates[1] >>


(***************************************************************************)
(* The PLURALS migration transform (fluent.migrate.transforms), exercised  *)
(* by tests/migrate/test_plural.py.  A legacy string is the sequence of    *)
(* its pieces: the separator ";", the argument mark "#1", and the text     *)
(* between them.  The letters with diacritics of the Polish test strings   *)
(* are written without them.                                               *)
(***************************************************************************)
\* str.split(';'): one form more than there are separators, empty forms kept.
RECURSIVE Split(_)
Split(source) ==
    IF source = << >> THEN << << >> >>
    ELSE LET rest == Split(Tail(source))
         IN  IF Head(source) = ";" THEN << << >> >> \o rest
             ELSE << << Head(source) >> \o rest[1] >> \o Tail(rest)

\* The pattern of one form: its text, with "#1" replaced by the selector
\* argument when the transform was given REPLACE_IN_TEXT; adjacent text is
\* one TextElement.
pattern_of(form, replace) ==
    LET RECURSIVE elements_of(_)
        elements_of(pieces) ==
            IF pieces = << >> THEN << >>
            ELSE LET rest == elements_of(Tail(pieces))
                 IN  IF replace /\ Head(pieces) = "#1"
                     THEN << Placeable(VariableReference("num")) >> \o rest
                     ELSE IF rest # << >> /\ rest[1].type = "TextElement"
                     THEN << TextElement(Head(pieces) \o rest[1].value) >> \o Tail(rest)
                     ELSE << TextElement(Head(pieces)) >> \o rest
    IN  [type |-> "Pattern", elements |-> elements_of(form)]

PLURALS_firstdefault(source, selector, keys, replace) ==
    LET forms == Split(source)
        last  == IF Len(forms) < Len(keys) THEN Len(forms) ELSE Len(keys)
    IN  IF Len(forms) = 1 THEN pattern_of(forms[1], replace)
        ELSE [type |-> "Pattern",
              elements |->
                 << Placeable(SelectExpression(selector,
                        [i \in 1 .. last |->
                            Variant(Identifier(keys[i]), pattern_of(forms[i], replace),
                                    i = 1)])) >>]

\* PLURALS.__call__: the forms of the source string are paired with the
\* context's plural categories, as far as both go; the last pair is the
\* default variant.  A string of one form gives that form's pattern.
PLURALS(source, selector, keys, replace) ==
    LET forms == Split(source)
        last  == IF Len(forms) < Len(keys) THEN Len(forms) ELSE Len(keys)
    IN  IF Len(forms) = 1 THEN pattern_of(forms[1], replace)
        ELSE [type |-> "Pattern",
              elements |->
                 << Placeable(SelectExpression(selector,
                        [i \in 1 .. last |->
                            Variant(Identifier(keys[i]), pattern_of(forms[i], replace),
                                    i = last)])) >>]

\* The cases of test_plural.py: the legacy string, the context's plural
\* categories, whether the transform replaces "#1", and the message value
\* the test expects.
TestCases ==
    LET num == VariableReference("num")
        text(t) == [type |-> "Pattern", elements |-> << TextElement(t) >>]
        mixed(a, b) ==
            [type |-> "Pattern", elements |-> << TextElement(a), Placeable(num),
                                                 TextElement(b) >>]
        select(variants) ==
            [type |-> "Pattern",
             elements |-> << Placeable(SelectExpression(num, variants)) >>]
        delete == << "Delete this download?", ";", "Delete all downloads?" >>
    IN  { \* TestPlural.test_plural
          [source |-> delete, plural_categories |-> << "one", "other" >>,
           replace |-> FALSE,
           expected |-> select(<<
               Variant(Identifier("one"), text("Delete this download?"), FALSE),
               Variant(Identifier("other"), text("Delete all downloads?"), TRUE) >>)],
          \* TestPlural.test_plural_too_few_variants
          [source |-> delete,
           plural_categories |-> << "one", "few", "many", "other" >>,
           replace |-> FALSE,
           expected |-> select(<<
               Variant(Identifier("one"), text("Delete this download?"), FALSE),
               Variant(Identifier("few"), text("Delete all downloads?"), TRUE) >>)],
          \* TestPlural.test_plural_too_many_variants
          [source |-> delete, plural_categories |-> << "one" >>,
           replace |-> FALSE,
           expected |-> select(<<
               Variant(Identifier("one"), text("Delete this download?"), TRUE) >>)],
          \* TestPluralReplace.test_plural_replace
          [source |-> << "Delete this download?", ";", "Delete ", "#1", " downloads?" >>,
           plural_categories |-> << "one", "other" >>,
           replace |-> TRUE,
           expected |-> select(<<
               Variant(Identifier("one"), text("Delete this download?"), FALSE),
               Variant(Identifier("other"), mixed("Delete ", " downloads?"), TRUE) >>)],
          \* TestOneCategory.test_no_select_expression
          [source |-> << "#1", " indirme silinsin mi?" >>,
           plural_categories |-> << "other" >>,
           replace |-> TRUE,
           expected |-> [type |-> "Pattern",
                         elements |-> << Placeable(num),
                                         TextElement(" indirme silinsin mi?") >>]],
          \* TestManyCategories.test_too_few_variants
          [source |-> << "Usunac plik?", ";", "Usunac ", "#1", " pliki?", ";",
                         "Usunac ", "#1", " plikow?" >>,
           plural_categories |-> << "one", "few", "many", "other" >>,
           replace |-> TRUE,
           expected |-> select(<<
               Variant(Identifier("one"), text("Usunac plik?"), FALSE),
               Variant(Identifier("few"), mixed("Usunac ", " pliki?"), FALSE),
               Variant(Identifier("many"), mixed("Usunac ", " plikow?"), TRUE) >>)] }

MaxPieces == 3

\* The transforms of the model: the test cases, and every string of up to
\* MaxPieces pieces under four sets of plural categories.
PluralsInit ==
    /\ InstanceInit([locales |-> << >>, loader |-> "none", use_isolating |-> FALSE])
    /\ fluent_loader =
          [in_memory |-> FALSE, roots |-> << >>, DI_LANG |-> "",
           TRANSLATION_STATIC_FILES_PATH |-> "", files |-> {}, redis |-> {}]
    /\ gen = NoGenerator
    /\ \E source \in { t.source : t \in TestCases }
                     \cup UNION { [1 .. n -> {"a", "#1", ";"}] : n \in 0 .. MaxPieces },
          keys \in { << "other" >>, << "one" >>, << "one", "other" >>,
                     << "one", "few", "many", "other" >> },
          replace \in BOOLEAN :
          migration = [state |-> "ready", source |-> source,
                       plural_categories |-> keys, replace |-> replace,
                       value |-> << >>]

\* evaluate(ctx, message): the message's value is the transform's result.
Evaluate ==
    /\ migration.state = "ready"
    /\ migration' =
          [migration EXCEPT
              !.state = "done",
              !.value = PLURALS(migration.source, VariableReference("num"),
                                migration.plural_categories, migration.replace)]
    /\ UNCHANGED <<config_vars, cursors, call_vars, env_vars, cache_vars,
                   bundle_pointer, pc, ctl, stack, result, fluent_loader, gen>>

NextPlurals == Evaluate

PluralsSpec == PluralsInit /\ [][NextPlurals]_vars

=============================================================================
